---- MODULE Spec2Model ----
(***************************************************************************)
(* Model of the build-and-deploy job handler buildAndDeploy of              *)
(* src/lib/workers/deployWorker.js.  One run of the handler for one job:    *)
(* the handler's position (pc), the job data, the cloned repository, the    *)
(* two working directories, the objects written to storage and the history  *)
(* of the calls the handler made (events).  External processes, the object  *)
(* store, the CDN and the filesystem removals succeed or fail               *)
(* nondeterministically.                                                    *)
(***************************************************************************)
EXTENDS Integers, Sequences, FiniteSets, TLC

VARIABLES
    pc,             \* position of the handler in buildAndDeploy
    job,            \* job.data, after the defaults of the destructuring
    repo,           \* what the clone brought: the manifest at the build root
    buildRoot,      \* how buildDirectory was resolved
    artifactSource, \* the directory copied into dist/{deploymentId}
    cloneExists,    \* temp/clone-{deploymentId} exists
    distExists,     \* dist/{deploymentId} exists
    distFiles,      \* number of regular files under dist/{deploymentId}
    totalFiles,     \* allFiles.length
    uploadedCount,  \* uploadedCount
    objects,        \* the keys of the objects PUT to the bucket
    sent,           \* the PutObject commands sent, in order
    cloudFrontUrl,  \* cloudFrontUrl: "null" or the CDN URL
    caught,         \* the error caught by the catch block ("none" before)
    raised,         \* the error the handler raised to the runtime ("none" before)
    events,         \* history of the calls made, in order
    remote,         \* the repository at repoUrl: its directory tree and manifest
    search,         \* what the call of searchForFolder did and returned
    result,         \* the value the handler returned (NoResult before)
    viteConfig,     \* vite.config.js and vite.config.ts in the build root
    env,            \* envContent, buildEnv and envVarsCount of the handler
    waiting,        \* jobs of the queue no worker slot has taken yet
    slots,          \* the worker's slots: the job each one runs and its stage
    localDirs,      \* the local directories that exist, with the job that made each
    touches,        \* every use of a directory, key or invalidation path, by job
    deploying,      \* deploy page: the state deploying
    deploymentResult, \* deploy page: the job whose result is displayed (NoJob: null)
    error,          \* deploy page: the error displayed (NoError: null)
    jobId,          \* deploy page: the state jobId (NoJob: null)
    pollInterval,   \* deploy page: the job id the running timer polls (NoJob: no timer)
    polls,          \* deploy page: the timer callbacks that await a response
    posts,          \* deploy page: the POST requests that await a response
    jobs,           \* the queue's state of each job the POST handler created
    submitted       \* deploy page: number of calls of handleDeploy

vars == << pc, job, repo, buildRoot, artifactSource, cloneExists, distExists,
           distFiles, totalFiles, uploadedCount, objects, sent, cloudFrontUrl,
           caught, raised, events, remote, search, result, viteConfig, env,
           waiting, slots, localDirs, touches,
           deploying, deploymentResult, error, jobId, pollInterval, polls, posts,
           jobs, submitted >>

workerVars == << waiting, slots, localDirs, touches >>

pageVars == << deploying, deploymentResult, error, jobId, pollInterval, polls, posts,
               jobs, submitted >>

(***************************************************************************)
(* The deploy page (src/app/deploy/page.jsx): its state and its defaults    *)
(***************************************************************************)
\* calls of handleDeploy in one visit of the page
MaxDeployments == 2
\* timer callbacks that can await a response at one time
MaxPolls == 2
\* the job ids the POST handler hands out: the n-th request creates job n
JobIds == 1..MaxDeployments
PollIds == 1..MaxPolls
\* null, for jobId and deploymentResult
NoJob == 0
\* null, for error
NoError == [from |-> "null", job |-> NoJob]
\* no callback awaits a response
NoPoll == [job |-> NoJob, stage |-> "idle"]

\* the page after its first render: the defaults of useState
PageInit ==
    /\ deploying = FALSE
    /\ deploymentResult = NoJob
    /\ error = NoError
    /\ jobId = NoJob
    /\ pollInterval = NoJob
    /\ polls = [i \in PollIds |-> NoPoll]
    /\ posts = {}
    /\ jobs = [j \in JobIds |-> "none"]
    /\ submitted = 0

(***************************************************************************)
(* Bounds and input sets                                                    *)
(***************************************************************************)
MaxFiles == 3

Branches == {"", "main", "master", "dev"}
BuildPaths == {"", "frontend"}
DistributionIds == {"", "E1"}
BackendUrls == {"", "https://api"}
EnvBlocks == { << >>, << "A", "=", "1" >> }

DeploymentIds == {"d1"}

JobData == [deploymentId : DeploymentIds, branch : Branches,
            buildPath : BuildPaths, backendUrl : BackendUrls,
            envVariables : EnvBlocks, distributionId : DistributionIds]

NoRepo == [pkg |-> "unknown", deps |-> FALSE, build |-> FALSE,
           vite |-> FALSE, cra |-> FALSE]

\* The manifests a clone can bring.  isVite and isCRA need hasDependencies.
Repos ==
    { r \in [pkg : {"none", "malformed", "valid"}, deps : BOOLEAN,
             build : BOOLEAN, vite : BOOLEAN, cra : BOOLEAN] :
        /\ (r.pkg # "valid") => (~r.deps /\ ~r.build)
        /\ (r.vite \/ r.cra) => r.deps }

PossibleBuildDirs == << "dist", "build", "out", ".next" >>


(***************************************************************************)
(* The cloned directory tree and searchForFolder                            *)
(*                                                                          *)
(* A path is the sequence of names below the clone root (<< >> is the       *)
(* root).  A tree has directories, regular files and symbolic links; every  *)
(* link points to the clone root, so that a link makes a cycle and makes    *)
(* every directory reachable through several paths.                         *)
(***************************************************************************)
MAX_DEPTH == 3
MaxDirs == 3
SearchFuel == 60

DirNames == {"frontend", "a", ".git", "node_modules"}
LinkName == "loop"
\* the order in which readdirSync lists the entries of a directory
NameOrder == << ".git", "a", "b", "frontend", "loop", "node_modules" >>
Missing == << "//" >>

StartsWithDot(name) == name \in {".git", ".next"}

RECURSIVE Real(_, _)
\* the directory a path leads to, following links; Missing if there is none
Real(tree, path) ==
    IF path = << >> THEN << >>
    ELSE LET parent == Real(tree, SubSeq(path, 1, Len(path) - 1))
             entry == Append(parent, path[Len(path)])
         IN  IF parent = Missing THEN Missing
             ELSE IF entry \in tree.dirs THEN entry
             ELSE IF entry \in tree.links THEN << >>
             ELSE Missing

\* fs.existsSync(p) && fs.statSync(p).isDirectory()
IsDirectory(tree, path) == Real(tree, path) # Missing

\* fs.readdirSync(path): the names of the entries, in listing order
ReadDir(tree, path) ==
    LET dir == Real(tree, path)
        present(name) == Append(dir, name) \in (tree.dirs \cup tree.links \cup tree.files)
    IN  IF dir = Missing THEN << >> ELSE SelectSeq(NameOrder, present)

RECURSIVE ScanItems(_, _, _, _, _, _, _)
\* the for loop over the items of one directory: a match, or the queue extended
ScanItems(tree, target, currentPath, depth, items, i, queue) ==
    IF i > Len(items) THEN [found |-> {}, queue |-> queue]
    ELSE LET item == items[i]
             itemPath == Append(currentPath, item)
         IN  IF StartsWithDot(item) \/ item = "node_modules"
             THEN ScanItems(tree, target, currentPath, depth, items, i + 1, queue)
             ELSE IF IsDirectory(tree, itemPath)
             THEN IF item = target
                  THEN [found |-> {itemPath}, queue |-> queue]
                  ELSE ScanItems(tree, target, currentPath, depth, items, i + 1,
                                 IF depth < MAX_DEPTH
                                 THEN Append(queue, [path |-> itemPath, depth |-> depth + 1])
                                 ELSE queue)
             ELSE ScanItems(tree, target, currentPath, depth, items, i + 1, queue)

NoSearch == [queue |-> << >>, visited |-> {}, listed |-> << >>,
             found |-> {}, returned |-> FALSE]

\* variant: the subdirectories of a listed directory are not queued
SearchStepRootOnly(tree, target, st) ==
    LET head == Head(st.queue)
        rest == Tail(st.queue)
    IN  IF head.depth > MAX_DEPTH \/ head.path \in st.visited
        THEN [st EXCEPT !.queue = rest]
        ELSE LET scan == ScanItems(tree, target, head.path, head.depth,
                                   ReadDir(tree, head.path), 1, rest)
             IN  [queue |-> rest,
                  visited |-> st.visited \cup {head.path},
                  listed |-> Append(st.listed, head.path),
                  found |-> scan.found,
                  returned |-> scan.found # {}]

\* variant: the subdirectories are put in front of the queue (depth first)
SearchStepDepthFirst(tree, target, st) ==
    LET head == Head(st.queue)
        rest == Tail(st.queue)
    IN  IF head.depth > MAX_DEPTH \/ head.path \in st.visited
        THEN [st EXCEPT !.queue = rest]
        ELSE LET scan == ScanItems(tree, target, head.path, head.depth,
                                   ReadDir(tree, head.path), 1, << >>)
             IN  [queue |-> scan.queue \o rest,
                  visited |-> st.visited \cup {head.path},
                  listed |-> Append(st.listed, head.path),
                  found |-> scan.found,
                  returned |-> scan.found # {}]

\* one iteration of the while loop
SearchStep(tree, target, st) ==
    LET head == Head(st.queue)
        rest == Tail(st.queue)
    IN  IF head.depth > MAX_DEPTH \/ head.path \in st.visited
        THEN [st EXCEPT !.queue = rest]
        ELSE LET scan == ScanItems(tree, target, head.path, head.depth,
                                   ReadDir(tree, head.path), 1, rest)
             IN  [queue |-> scan.queue,
                  visited |-> st.visited \cup {head.path},
                  listed |-> Append(st.listed, head.path),
                  found |-> scan.found,
                  returned |-> scan.found # {}]

RECURSIVE RunSearch(_, _, _, _)
\* the while loop, for at most `fuel` iterations
RunSearch(tree, target, st, fuel) ==
    IF st.returned THEN st
    ELSE IF st.queue = << >> THEN [st EXCEPT !.returned = TRUE]
    ELSE IF fuel = 0 THEN st
    ELSE RunSearch(tree, target, SearchStep(tree, target, st), fuel - 1)

\* searchForFolder(basePath, targetFolderName); found = {} is the result null
SearchForFolder(tree, target) ==
    RunSearch(tree, target,
              [NoSearch EXCEPT !.queue = << [path |-> << >>, depth |-> 0] >>],
              SearchFuel)

RECURSIVE JoinNames(_, _)
\* names.join(", ")
JoinNames(names, i) ==
    IF i > Len(names) THEN ""
    ELSE IF i = Len(names) THEN names[i]
    ELSE names[i] \o ", " \o JoinNames(names, i + 1)

\* variant: every entry of the clone root is listed, regular files included
AvailableFoldersUnfiltered(tree) == ReadDir(tree, << >>)

\* rootContents.filter(f => statSync(join(tempClonePath, f)).isDirectory())
AvailableFolders(tree) ==
    LET isDir(name) == IsDirectory(tree, << name >>)
    IN  SelectSeq(ReadDir(tree, << >>), isDir)

(***************************************************************************)
(* The trees considered                                                     *)
(***************************************************************************)
Tree(dirs, files, links) == [dirs |-> dirs, files |-> files, links |-> links]

\* the trees of the job runs: the build path at the top, nested, or absent
RepositoryAtRoot == Tree({<< ".git" >>, << "frontend" >>}, {}, {})

PipelineTrees ==
    { RepositoryAtRoot,
      Tree({<< ".git" >>, << "a" >>, << "a", "frontend" >>}, {}, {}),
      Tree({<< ".git" >>, << "a" >>}, {<< "frontend" >>}, {}) }

RECURSIVE DirSets(_)
\* the prefix-closed sets of at most n directories, built one directory at a time
DirSets(n) ==
    IF n = 0 THEN { {} }
    ELSE LET smaller == DirSets(n - 1)
         IN  smaller \cup
             UNION { { d \cup {Append(p, name)} : p \in d \cup {<< >>}, name \in DirNames } :
                     d \in smaller }

\* every tree of at most MaxDirs directories, with at most one link
SearchTrees ==
    UNION { { Tree(d, {}, l) :
                l \in { {} } \cup { {Append(p, LinkName)} : p \in d \cup {<< >>} } } :
            d \in DirSets(MaxDirs) }

\* a chain of directories: the path and the directories above it
Chain(path) == Tree({ SubSeq(path, 1, k) : k \in 1..Len(path) }, {}, {})

\* trees deeper than MaxDirs directories allow: the requested name four and
\* five levels below the clone root
DeepTrees ==
    { Chain(<< "a", "a", "a", "frontend" >>),
      Chain(<< "a", "a", "a", "a", "frontend" >>) }

\* trees with two branches: the requested name two levels deep in the branch
\* listed last and three levels deep in the branch listed first, with and
\* without a link back to the clone root
ForkedTrees ==
    { Tree({ << "a" >>, << "a", "a" >>, << "a", "a", "frontend" >>,
             << "b" >>, << "b", "frontend" >> }, {}, l) :
        l \in { {}, {<< "a", "loop" >>} } }

(***************************************************************************)
(* The files under dist/{deploymentId} and their object keys                *)
(*                                                                          *)
(* A file is the sequence of its path segments below dist/{deploymentId},   *)
(* a segment is a sequence of pieces of text; a backslash inside a name is  *)
(* a piece of its own.  The worker runs in a Linux container, where the     *)
(* separator is "/" and a backslash is an ordinary character of a name.     *)
(***************************************************************************)
PathSep == "/"

\* getAllFiles(finalDistPath), in traversal order; a run has the first distFiles
WalkedFiles ==
    << << << "index", ".", "html" >> >>,
       << << "assets" >>, << "app", ".", "js" >> >>,
       << << "img", "\\", "logo", ".", "png" >> >>,
       << << "assets" >>, << "css" >>, << "app", ".", "css" >> >>,
       << << "favicon", ".", "ico" >> >> >>

RECURSIVE JoinPath(_, _, _)
\* the segments from the i-th on, joined by sep
JoinPath(segments, sep, i) ==
    IF i > Len(segments) THEN << >>
    ELSE IF i = Len(segments) THEN segments[i]
    ELSE segments[i] \o << sep >> \o JoinPath(segments, sep, i + 1)

\* path.relative(finalDistPath, filePath)
RelativePath(file) == JoinPath(file, PathSep, 1)

\* relativePath.replace(/\\/g, '/')
ReplaceBackslashes(text) ==
    [i \in 1..Len(text) |-> IF text[i] = "\\" THEN "/" ELSE text[i]]

\* `${deploymentId}/${relativePath.replace(/\\/g, '/')}`
S3Key(deploymentId, relativePath) ==
    << deploymentId, "/" >> \o ReplaceBackslashes(relativePath)

\* path.extname(filePath): from the last '.' of the last segment on, and ''
\* when there is none or when it is the first character of the segment
ExtName(file) ==
    LET base == file[Len(file)]
        dots == { i \in 1..Len(base) : base[i] = "." }
        last == CHOOSE i \in dots : \A j \in dots : j <= i
    IN  IF dots = {} \/ last = 1 THEN << >> ELSE SubSeq(base, last, Len(base))

\* String.prototype.toLowerCase, on the pieces of the file names considered
LowerCasePiece(piece) ==
    CASE piece = "HTML" -> "html"
      [] piece = "Js" -> "js"
      [] piece = "PNG" -> "png"
      [] piece = "XYZ" -> "xyz"
      [] piece = "LICENSE" -> "license"
      [] piece = "INDEX" -> "index"
      [] OTHER -> piece

ToLowerCase(text) == [i \in 1..Len(text) |-> LowerCasePiece(text[i])]

\* contentTypeMap
ContentTypeMap ==
    [ext \in { << ".", e >> : e \in {"html", "css", "js", "json", "png", "jpg", "jpeg", "gif",
                                     "svg", "ico", "txt", "pdf", "woff", "woff2", "ttf",
                                     "eot"} } |->
        CASE ext[2] = "html" -> "text/html"
          [] ext[2] = "css" -> "text/css"
          [] ext[2] = "js" -> "application/javascript"
          [] ext[2] = "json" -> "application/json"
          [] ext[2] = "png" -> "image/png"
          [] ext[2] = "jpg" -> "image/jpeg"
          [] ext[2] = "jpeg" -> "image/jpeg"
          [] ext[2] = "gif" -> "image/gif"
          [] ext[2] = "svg" -> "image/svg+xml"
          [] ext[2] = "ico" -> "image/x-icon"
          [] ext[2] = "txt" -> "text/plain"
          [] ext[2] = "pdf" -> "application/pdf"
          [] ext[2] = "woff" -> "font/woff"
          [] ext[2] = "woff2" -> "font/woff2"
          [] ext[2] = "ttf" -> "font/ttf"
          [] ext[2] = "eot" -> "application/vnd.ms-fontobject"]

\* variant: the extension is looked up as it is written
ContentTypeCaseSensitive(file) ==
    LET ext == ExtName(file)
    IN  IF ext \in DOMAIN ContentTypeMap THEN ContentTypeMap[ext]
        ELSE "application/octet-stream"

\* contentTypeMap[ext] || 'application/octet-stream'
ContentType(file) ==
    LET ext == ToLowerCase(ExtName(file))
    IN  IF ext \in DOMAIN ContentTypeMap THEN ContentTypeMap[ext]
        ELSE "application/octet-stream"

(***************************************************************************)
(* The result of a run                                                      *)
(***************************************************************************)
Bucket == "aws-auto-deployer"
Region == "eu-north-1"
CloudFrontDomain == "d2xycbl0v7dc9v.cloudfront.net"

\* new PutObjectCommand({ Bucket, Key, Body, ContentType, CacheControl })
PutObjectCommand(deploymentId, file) ==
    [Bucket |-> Bucket,
     Key |-> S3Key(deploymentId, RelativePath(file)),
     ContentType |-> ContentType(file),
     CacheControl |-> "public, max-age=31536000"]

S3DirectUrl(deploymentId) ==
    "https://" \o Bucket \o ".s3." \o Region \o ".amazonaws.com/" \o deploymentId
        \o "/index.html"
CdnUrl(deploymentId) ==
    "https://" \o CloudFrontDomain \o "/" \o deploymentId \o "/index.html"
S3Path(deploymentId) == "s3://" \o Bucket \o "/" \o deploymentId \o "/"
FinalDistPath(deploymentId) == "dist/" \o deploymentId

NoResult == [success |-> FALSE, deploymentId |-> "", bucket |-> "", totalFiles |-> 0,
             uploadedCount |-> 0, s3Url |-> "", cloudFrontUrl |-> "null",
             cloudFrontDistributionId |-> "", s3Path |-> "", localPath |-> ""]

(***************************************************************************)
(* Text, and fixViteConfig                                                  *)
(*                                                                          *)
(* A text is a sequence of pieces (words, punctuation marks, blanks); the   *)
(* pieces are cut so that every pattern the code looks for begins and ends  *)
(* at a piece boundary: "database:" is the three pieces "data", "base", ":" *)
(***************************************************************************)
WhiteSpace == {" ", "\n"}
Quotes == {"'", "\""}

\* String.prototype.includes
Includes(text, pattern) ==
    \E i \in 1..(Len(text) - Len(pattern) + 1) :
        SubSeq(text, i, i + Len(pattern) - 1) = pattern

RECURSIVE SkipWhile(_, _, _)
\* the first position from i on whose piece is not in set (Len + 1 if none)
SkipWhile(text, i, set) ==
    IF i > Len(text) \/ text[i] \notin set THEN i
    ELSE SkipWhile(text, i + 1, set)

RECURSIVE SkipUntil(_, _, _)
\* the first position from i on whose piece is in set (Len + 1 if none)
SkipUntil(text, i, set) ==
    IF i > Len(text) \/ text[i] \in set THEN i
    ELSE SkipUntil(text, i + 1, set)

\* /base:\s*['"][^'"]*['"]/ matched at position i: the position after the
\* match, 0 when there is no match at i
BaseMatchEnd(text, i) ==
    IF i + 1 <= Len(text) /\ text[i] = "base" /\ text[i + 1] = ":"
    THEN LET open == SkipWhile(text, i + 2, WhiteSpace)
             close == SkipUntil(text, open + 1, Quotes)
         IN  IF open <= Len(text) /\ text[open] \in Quotes /\ close <= Len(text)
             THEN close + 1
             ELSE 0
    ELSE 0

RelativeBase == << "base", ":", " ", "'", "./", "'" >>

RECURSIVE ReplaceBase(_, _)
\* configContent.replace(/base:\s*['"][^'"]*['"]/g, "base: './'"), from i on
ReplaceBase(text, i) ==
    IF i > Len(text) THEN << >>
    ELSE LET end == BaseMatchEnd(text, i)
         IN  IF end # 0 THEN RelativeBase \o ReplaceBase(text, end)
             ELSE << text[i] >> \o ReplaceBase(text, i + 1)

\* /defineConfig\(\s*{/ matched at i: the position after the match, else 0
DefineConfigMatchEnd(text, i) ==
    IF i + 1 <= Len(text) /\ text[i] = "defineConfig" /\ text[i + 1] = "("
    THEN LET brace == SkipWhile(text, i + 2, WhiteSpace)
         IN  IF brace <= Len(text) /\ text[brace] = "{" THEN brace + 1 ELSE 0
    ELSE 0

\* /export default\s*{/ matched at i: the position after the match, else 0
ExportDefaultMatchEnd(text, i) ==
    IF i + 2 <= Len(text) /\ text[i] = "export" /\ text[i + 1] = " "
       /\ text[i + 2] = "default"
    THEN LET brace == SkipWhile(text, i + 3, WhiteSpace)
         IN  IF brace <= Len(text) /\ text[brace] = "{" THEN brace + 1 ELSE 0
    ELSE 0

\* the leftmost position of positions, 0 when there is none
Leftmost(positions) ==
    IF positions = {} THEN 0
    ELSE CHOOSE i \in positions : \A j \in positions : i <= j

\* text.replace(regex, replacement) for a regex without the g flag: the
\* leftmost match, from first up to before end, is replaced
ReplaceFirst(text, first, end, replacement) ==
    IF first = 0 THEN text
    ELSE SubSeq(text, 1, first - 1) \o replacement \o SubSeq(text, end, Len(text))

InjectedDefineConfig ==
    << "defineConfig", "(", "{", "\n", " ", " ", "base", ":", " ", "'", "./", "'", "," >>
InjectedExportDefault ==
    << "export", " ", "default", " ", "{", "\n", " ", " ", "base", ":", " ", "'", "./", "'", "," >>

\* the rewriting of the content of an existing config file
PatchViteConfig(content) ==
    IF Includes(content, << "base", ":" >>)
    THEN ReplaceBase(content, 1)
    ELSE IF Includes(content, << "defineConfig", "(", "{" >>)
    THEN LET first == Leftmost({ i \in 1..Len(content) : DefineConfigMatchEnd(content, i) # 0 })
         IN  ReplaceFirst(content, first, DefineConfigMatchEnd(content, first),
                          InjectedDefineConfig)
    ELSE IF Includes(content, << "export", " ", "default", " ", "{" >>)
    THEN LET first == Leftmost({ i \in 1..Len(content) : ExportDefaultMatchEnd(content, i) # 0 })
         IN  ReplaceFirst(content, first, ExportDefaultMatchEnd(content, first),
                          InjectedExportDefault)
    ELSE content

\* newConfig
NewViteConfig ==
    << "import", " ", "{", " ", "defineConfig", " ", "}", " ", "from", " ",
       "'", "vite", "'", "\n", "\n",
       "export", " ", "default", " ", "defineConfig", "(", "{", "\n",
       " ", " ", "base", ":", " ", "'", "./", "'", ",", "\n", "}", ")", "\n" >>

NoFile == [exists |-> FALSE, content |-> << >>]
File(content) == [exists |-> TRUE, content |-> content]
NoConfigFiles == [js |-> NoFile, ts |-> NoFile]

\* fixViteConfig(buildDirectory, deploymentId): the two files afterwards
FixViteConfig(files) ==
    IF files.js.exists
    THEN [files EXCEPT !.js = File(PatchViteConfig(files.js.content))]
    ELSE IF files.ts.exists
    THEN [files EXCEPT !.ts = File(PatchViteConfig(files.ts.content))]
    ELSE [files EXCEPT !.js = File(NewViteConfig)]

(***************************************************************************)
(* The config files considered                                              *)
(***************************************************************************)
ExportDefineConfig == << "export", " ", "default", " ", "defineConfig", "(", "{" >>
Plugins == << " ", "plugins", ":", " ", "[", "react", "(", ")", "]", ",", " " >>

ViteConfigContents ==
    { \* base set to a string literal, single and double quotes
      ExportDefineConfig \o Plugins \o << "base", ":", " ", "'", "/app/", "'", " ", "}", ")" >>,
      ExportDefineConfig \o << "base", ":", "\"", "/", "\"", "," >> \o Plugins \o << "}", ")" >>,
      \* base already relative
      ExportDefineConfig \o << " " >> \o RelativeBase \o << " ", "}", ")" >>,
      \* no base: the two export forms the code recognises
      ExportDefineConfig \o Plugins \o << "}", ")" >>,
      << "export", " ", "default", " ", "{" >> \o Plugins \o << "}" >>,
      << "export", " ", "default", " ", "defineConfig", "(", "\n", " ", "{" >>
          \o Plugins \o << "}", ")" >>,
      \* base set to an expression that is not a string literal
      ExportDefineConfig \o << " ", "base", ":", " ", "process.env.BASE_URL", " ", "}", ")" >>,
      \* no base, config given as a function
      << "export", " ", "default", " ", "defineConfig", "(", "(", ")", " ", "=>", " ",
         "(", "{" >> \o Plugins \o << "}", ")", ")" >>,
      \* no base, CommonJS export
      << "module.exports", " ", "=", " ", "{" >> \o Plugins \o << "}" >>,
      \* no base option, but another option whose name ends in "base"
      ExportDefineConfig \o << " ", "define", ":", " ", "{", " ", "data", "base", ":", " ",
                               "'", "pg", "'", " ", "}", " ", "}", ")" >> }

\* the build roots considered: one config file, as .js or as .ts, or none
ViteConfigFiles ==
    { NoConfigFiles }
        \cup { [js |-> File(c), ts |-> NoFile] : c \in ViteConfigContents }
        \cup { [js |-> NoFile, ts |-> File(c)] : c \in ViteConfigContents }

\* a repository: its directory tree, the manifest and the Vite config files of
\* its build root, and the files its artifact directory will hold
Remote(tree, manifest, config, files) ==
    [tree |-> tree, manifest |-> manifest, config |-> config, files |-> files]

(***************************************************************************)
(* The environment of the build: envContent, buildEnv, envVarsCount        *)
(***************************************************************************)
RECURSIVE Split(_, _)
\* String.prototype.split(sep): the parts between the separators
Split(text, sep) ==
    LET i == SkipUntil(text, 1, {sep})
    IN  IF i > Len(text) THEN << text >>
        ELSE << SubSeq(text, 1, i - 1) >> \o Split(SubSeq(text, i + 1, Len(text)), sep)

RECURSIVE Join(_, _)
\* Array.prototype.join(sep)
Join(parts, sep) ==
    IF parts = << >> THEN << >>
    ELSE IF Len(parts) = 1 THEN parts[1]
    ELSE parts[1] \o << sep >> \o Join(Tail(parts), sep)

RECURSIVE TrimEnd(_)
TrimEnd(text) ==
    IF text # << >> /\ text[Len(text)] \in WhiteSpace
    THEN TrimEnd(SubSeq(text, 1, Len(text) - 1))
    ELSE text

\* String.prototype.trim
Trim(text) == TrimEnd(SubSeq(text, SkipWhile(text, 1, WhiteSpace), Len(text)))

\* buildEnv[key] = value
Put(map, key, value) ==
    [k \in DOMAIN map \cup {key} |-> IF k = key THEN value ELSE map[k]]

\* process.env of the worker's container
ProcessEnv == [k \in { << "NODE_ENV" >> } |-> << "production" >>]

NoEnv == [content |-> << >>, map |-> ProcessEnv, count |-> 0,
          added |-> << >>, skipped |-> << >>]

\* `${key}=${value}\n`, one line of envContent
EnvLine(key, value) == key \o << "=" >> \o value

BackendKeys == << << "REACT_APP_API_URL" >>, << "VITE_API_URL" >>, << "NEXT_PUBLIC_API_URL" >> >>

\* variant: the backend keys are set but not counted
AddBackendUrlUncounted(e, backendUrl) ==
    IF backendUrl # ""
    THEN [e EXCEPT !.content = @ \o [i \in 1..3 |-> EnvLine(BackendKeys[i], << backendUrl >>)],
                   !.map = Put(Put(Put(@, BackendKeys[1], << backendUrl >>),
                                   BackendKeys[2], << backendUrl >>),
                               BackendKeys[3], << backendUrl >>)]
    ELSE e

\* if (backendUrl) { ... }
AddBackendUrl(e, backendUrl) ==
    IF backendUrl # ""
    THEN [e EXCEPT !.content = @ \o [i \in 1..3 |-> EnvLine(BackendKeys[i], << backendUrl >>)],
                   !.map = Put(Put(Put(@, BackendKeys[1], << backendUrl >>),
                                   BackendKeys[2], << backendUrl >>),
                               BackendKeys[3], << backendUrl >>),
                   !.count = @ + 3]
    ELSE e

\* variant: the value is the part between the first and the second '='
AddLineSecondPartOnly(e, line) ==
    LET trimmedLine == Trim(line)
    IN  IF trimmedLine = << >> \/ trimmedLine[1] = "#" THEN e
        ELSE IF Includes(trimmedLine, << "=" >>)
        THEN LET parts == Split(trimmedLine, "=")
                 key == parts[1]
                 value == parts[2]
             IN  IF Trim(key) # << >>
                 THEN [e EXCEPT !.content = Append(@, EnvLine(Trim(key), Trim(value))),
                                !.map = Put(@, Trim(key), Trim(value)),
                                !.count = @ + 1,
                                !.added = Append(@, Trim(key))]
                 ELSE e
        ELSE [e EXCEPT !.skipped = Append(@, trimmedLine)]

\* the body of the loop over the lines of the block
AddLine(e, line) ==
    LET trimmedLine == Trim(line)
    IN  IF trimmedLine = << >> \/ trimmedLine[1] = "#" THEN e
        ELSE IF Includes(trimmedLine, << "=" >>)
        THEN LET parts == Split(trimmedLine, "=")
                 key == parts[1]
                 value == Join(Tail(parts), "=")
             IN  IF Trim(key) # << >>
                 THEN [e EXCEPT !.content = Append(@, EnvLine(Trim(key), Trim(value))),
                                !.map = Put(@, Trim(key), Trim(value)),
                                !.count = @ + 1,
                                !.added = Append(@, Trim(key))]
                 ELSE e
        ELSE [e EXCEPT !.skipped = Append(@, trimmedLine)]

RECURSIVE AddLines(_, _)
\* for (const line of lines)
AddLines(e, lines) ==
    IF lines = << >> THEN e
    ELSE AddLines(AddLine(e, Head(lines)), Tail(lines))

\* if (envVariables) { ... }
AddBlock(e, envVariables) ==
    IF envVariables # << >> THEN AddLines(e, Split(envVariables, "\n")) ELSE e

\* envContent, buildEnv and envVarsCount when the files are written
ComposeEnv(data) ==
    AddBlock(AddBackendUrl(NoEnv, data.backendUrl), data.envVariables)

(***************************************************************************)
(* The worker                                                               *)
(***************************************************************************)
Concurrency == 2
\* no handler is running
IdleSlots == << >>


(***************************************************************************)
(* Events                                                                   *)
(***************************************************************************)
Ev(op, s, n) == [op |-> op, s |-> s, n |-> n]
Progress(n) == Ev("progress", "", n)
Log(line) == Ev("log", line, 0)
Call(op, ok) == Ev(op, IF ok THEN "ok" ELSE "fail", 0)

\* entering the catch block with error e, after the calls evs were made
Throw(e, evs) ==
    /\ pc' = "catch"
    /\ caught' = e
    /\ events' = events \o evs

(***************************************************************************)
(* The handler                                                              *)
(***************************************************************************)
Init ==
    /\ pc = "start"
    /\ job \in JobData
    /\ repo = NoRepo
    /\ buildRoot = "none"
    /\ artifactSource = "none"
    /\ cloneExists = FALSE
    /\ distExists = FALSE
    /\ distFiles = 0
    /\ totalFiles = 0
    /\ uploadedCount = 0
    /\ objects = {}
    /\ sent = << >>
    /\ cloudFrontUrl = "null"
    /\ caught = "none"
    /\ raised = "none"
    /\ events = << >>
    /\ remote \in { Remote(t, m, NoConfigFiles, WalkedFiles) :
                       t \in PipelineTrees, m \in Repos }
    /\ job.buildPath = "" => remote.tree = RepositoryAtRoot
    /\ viteConfig = NoConfigFiles
    /\ env = NoEnv
    /\ waiting = {} /\ slots = IdleSlots /\ localDirs = {} /\ touches = {}
    /\ PageInit
    /\ search = NoSearch
    /\ result = NoResult

Start ==
    /\ pc = "start"
    /\ pc' = "clone"
    /\ events' = events \o << Progress(5) >>
    /\ UNCHANGED << pageVars, workerVars, sent, viteConfig, env, remote, search, result, job, repo, buildRoot, artifactSource, cloneExists,
                    distExists, distFiles, totalFiles, uploadedCount, objects,
                    cloudFrontUrl, caught, raised >>

CloneRepository ==
    /\ pc = "clone"
    /\ \E ok \in BOOLEAN :
         IF ok
         THEN /\ repo' = remote.manifest
              /\ viteConfig' = remote.config
              /\ cloneExists' = TRUE
              /\ pc' = "checkout"
              /\ events' = events \o << Log("Cloning repository"),
                                        Call("clone", TRUE), Progress(15) >>
              /\ UNCHANGED caught
         ELSE /\ \E left \in BOOLEAN : cloneExists' = left
              /\ Throw("CloneFailed", << Log("Cloning repository"),
                                         Call("clone", FALSE) >>)
              /\ UNCHANGED << repo, viteConfig >>
    /\ UNCHANGED << pageVars, workerVars, sent, env, remote, search, result, job, buildRoot, artifactSource, distExists, distFiles,
                    totalFiles, uploadedCount, objects, cloudFrontUrl, raised >>

\* variant: every named branch is checked out, "main" and "master" included
CheckoutBranchAlways ==
    /\ pc = "checkout"
    /\ IF job.branch # ""
       THEN \E ok \in BOOLEAN :
              IF ok
              THEN /\ pc' = "locate"
                   /\ events' = events \o << Log("Checking out branch"),
                                             Call("checkout", TRUE) >>
                   /\ UNCHANGED caught
              ELSE Throw("BranchCheckoutFailed",
                         << Log("Checking out branch"), Call("checkout", FALSE) >>)
       ELSE /\ pc' = "locate"
            /\ UNCHANGED << events, caught >>
    /\ UNCHANGED << pageVars, workerVars, sent, viteConfig, env, remote, search, result, job, repo, buildRoot, artifactSource, cloneExists,
                    distExists, distFiles, totalFiles, uploadedCount, objects,
                    cloudFrontUrl, raised >>

CheckoutBranch ==
    /\ pc = "checkout"
    /\ IF job.branch # "" /\ job.branch # "main" /\ job.branch # "master"
       THEN \E ok \in BOOLEAN :
              IF ok
              THEN /\ pc' = "locate"
                   /\ events' = events \o << Log("Checking out branch"),
                                             Call("checkout", TRUE) >>
                   /\ UNCHANGED caught
              ELSE Throw("BranchCheckoutFailed",
                         << Log("Checking out branch"), Call("checkout", FALSE) >>)
       ELSE /\ pc' = "locate"
            /\ UNCHANGED << events, caught >>
    /\ UNCHANGED << pageVars, workerVars, sent, viteConfig, env, remote, search, result, job, repo, buildRoot, artifactSource, cloneExists,
                    distExists, distFiles, totalFiles, uploadedCount, objects,
                    cloudFrontUrl, raised >>

\* buildDirectory: the clone root, the direct path, or the result of searchForFolder
LocateBuildRoot ==
    /\ pc = "locate"
    /\ LET tree == remote.tree
           rootContents == Log("Root contains: " \o JoinNames(ReadDir(tree, << >>), 1))
           found == SearchForFolder(tree, job.buildPath)
       IN  IF job.buildPath = ""
           THEN /\ buildRoot' = "root"
                /\ pc' = "detect"
                /\ events' = events \o << Log("=== Repository Structure ==="),
                                          rootContents,
                                          Call("locate", TRUE),
                                          Log("Using repository root") >>
                /\ UNCHANGED << caught, search >>
           ELSE IF IsDirectory(tree, << job.buildPath >>)
           THEN /\ buildRoot' = "direct"
                /\ pc' = "detect"
                /\ events' = events \o << Log("=== Repository Structure ==="),
                                          rootContents,
                                          Call("locate", TRUE),
                                          Log("Found at direct path: " \o job.buildPath) >>
                /\ UNCHANGED << caught, search >>
           ELSE /\ search' = found
                /\ IF found.found # {}
                   THEN /\ buildRoot' = "search"
                        /\ pc' = "detect"
                        /\ events' = events \o << Log("=== Repository Structure ==="),
                                                  rootContents,
                                                  Log("Searching for folder: " \o job.buildPath),
                                                  Call("locate", TRUE),
                                                  Log("Found build path") >>
                        /\ UNCHANGED caught
                   ELSE /\ Throw("BuildRootNotFound",
                                 << Log("=== Repository Structure ==="),
                                    rootContents,
                                    Log("Searching for folder: " \o job.buildPath),
                                    Call("locate", FALSE),
                                    Log("Could not find " \o job.buildPath),
                                    Log("Available folders: "
                                        \o JoinNames(AvailableFolders(tree), 1)) >>)
                        /\ UNCHANGED buildRoot
    /\ UNCHANGED << pageVars, workerVars, sent, viteConfig, env, remote, result, job, repo, artifactSource,
                    cloneExists, distExists,
                    distFiles, totalFiles, uploadedCount, objects,
                    cloudFrontUrl, raised >>

\* variant: an unparseable package.json is treated like a missing one
DetectProjectTypeLenient ==
    /\ pc = "detect"
    /\ IF repo.pkg # "valid"
       THEN /\ artifactSource' = "buildRoot"
            /\ pc' = "copy"
            /\ events' = events \o << Log("No package.json found"), Progress(75) >>
            /\ UNCHANGED caught
       ELSE /\ pc' = "env"
            /\ events' = events \o << Log("package.json found"),
                                      Call("parseManifest", TRUE) >>
            /\ UNCHANGED << artifactSource, caught >>
    /\ UNCHANGED << pageVars, workerVars, sent, viteConfig, env, remote, search, result, job, repo, buildRoot, cloneExists, distExists, distFiles,
                    totalFiles, uploadedCount, objects, cloudFrontUrl, raised >>

\* package.json: absent (static site), unparseable (JSON.parse throws) or parsed
DetectProjectType ==
    /\ pc = "detect"
    /\ CASE repo.pkg = "none" ->
              /\ artifactSource' = "buildRoot"
              /\ pc' = "copy"
              /\ events' = events \o << Log("No package.json found"), Progress(75) >>
              /\ UNCHANGED caught
         [] repo.pkg = "malformed" ->
              /\ Throw("ManifestParseError", << Log("package.json found"),
                                               Call("parseManifest", FALSE) >>)
              /\ UNCHANGED artifactSource
         [] OTHER ->
              /\ pc' = "env"
              /\ events' = events \o << Log("package.json found"),
                                        Call("parseManifest", TRUE) >>
              /\ UNCHANGED << artifactSource, caught >>
    /\ UNCHANGED << pageVars, workerVars, sent, viteConfig, env, remote, search, result, job, repo, buildRoot, cloneExists, distExists, distFiles,
                    totalFiles, uploadedCount, objects, cloudFrontUrl, raised >>

ComposeEnvironment ==
    /\ pc = "env"
    /\ pc' = "install"
    /\ env' = ComposeEnv(job)
    /\ events' = events \o
         (IF env'.content # << >>
          THEN << Call("writeEnv", TRUE), Log("environment variable(s) configured") >>
          ELSE << Log("No environment variables configured") >>)
    /\ UNCHANGED << pageVars, workerVars, sent, viteConfig, remote, search, result, job, repo, buildRoot, artifactSource, cloneExists,
                    distExists, distFiles, totalFiles, uploadedCount, objects,
                    cloudFrontUrl, caught, raised >>

\* variant: a failed npm install is run a second time
InstallDependenciesRetried ==
    /\ pc = "install"
    /\ repo.deps
    /\ \E ok \in BOOLEAN :
         IF ok \/ Cardinality({i \in DOMAIN events : events[i].op = "install"}) = 0
         THEN /\ pc' = IF ok THEN "patch" ELSE "install"
              /\ events' = events \o << Progress(20), Call("install", ok) >>
                                  \o (IF ok THEN << Progress(40) >> ELSE << >>)
              /\ UNCHANGED caught
         ELSE Throw("DependencyInstallFailed", << Progress(20), Call("install", FALSE) >>)
    /\ UNCHANGED << pageVars, workerVars, sent, viteConfig, env, remote, search, result, job, repo, buildRoot, artifactSource, cloneExists,
                    distExists, distFiles, totalFiles, uploadedCount, objects,
                    cloudFrontUrl, raised >>

\* variant: npm install is run for every manifest
InstallDependenciesAlways ==
    /\ pc = "install"
    /\ \E ok \in BOOLEAN :
         IF ok
         THEN /\ pc' = "patch"
              /\ events' = events \o << Log("Installing dependencies..."),
                                        Progress(20), Call("install", TRUE),
                                        Log("Dependencies installed"),
                                        Progress(40) >>
              /\ UNCHANGED caught
         ELSE Throw("DependencyInstallFailed",
                    << Log("Installing dependencies..."), Progress(20),
                       Call("install", FALSE) >>)
    /\ UNCHANGED << pageVars, workerVars, sent, viteConfig, env, remote, search, result, job, repo, buildRoot, artifactSource, cloneExists,
                    distExists, distFiles, totalFiles, uploadedCount, objects,
                    cloudFrontUrl, raised >>

InstallDependencies ==
    /\ pc = "install"
    /\ IF repo.deps
       THEN \E ok \in BOOLEAN :
              IF ok
              THEN /\ pc' = "patch"
                   /\ events' = events \o << Log("Installing dependencies..."),
                                             Progress(20), Call("install", TRUE),
                                             Log("Dependencies installed"),
                                             Progress(40) >>
                   /\ UNCHANGED caught
              ELSE Throw("DependencyInstallFailed",
                         << Log("Installing dependencies..."), Progress(20),
                            Call("install", FALSE) >>)
       ELSE /\ pc' = "patch"
            /\ events' = events \o << Progress(40) >>
            /\ UNCHANGED caught
    /\ UNCHANGED << pageVars, workerVars, sent, viteConfig, env, remote, search, result, job, repo, buildRoot, artifactSource, cloneExists,
                    distExists, distFiles, totalFiles, uploadedCount, objects,
                    cloudFrontUrl, raised >>

\* variant: only the Create-React-App fix-up is applied
PatchConfigViteSkipped ==
    /\ pc = "patch"
    /\ pc' = "build"
    /\ events' = events \o
         (IF repo.cra THEN << Call("patchCRA", TRUE) >> ELSE << >>)
         \o << Progress(50) >>
    /\ UNCHANGED << pageVars, workerVars, sent, viteConfig, env, remote, search, result, job, repo, buildRoot, artifactSource, cloneExists,
                    distExists, distFiles, totalFiles, uploadedCount, objects,
                    cloudFrontUrl, caught, raised >>

\* fixViteConfig / fixCreateReactApp, then progress 50
PatchConfig ==
    /\ pc = "patch"
    /\ pc' = "build"
    /\ viteConfig' = IF repo.vite THEN FixViteConfig(viteConfig) ELSE viteConfig
    /\ events' = events \o
         (CASE repo.vite -> << Log("Configuring Vite for relative paths..."),
                               Call("patchVite", TRUE), Log("Vite config updated") >>
            [] ~repo.vite /\ repo.cra ->
                            << Log("Configuring Create React App for relative paths..."),
                               Call("patchCRA", TRUE), Log("Package.json updated") >>
            [] OTHER -> << >>)
         \o << Progress(50) >>
    /\ UNCHANGED << pageVars, workerVars, sent, env, remote, search, result, job, repo, buildRoot, artifactSource, cloneExists,
                    distExists, distFiles, totalFiles, uploadedCount, objects,
                    cloudFrontUrl, caught, raised >>

RECURSIVE FirstExisting(_, _, _)
\* the loop over possibleBuildDirs: the first one that exists, else the build root
FirstExisting(dirs, existing, i) ==
    IF i > Len(dirs) THEN "buildRoot"
    ELSE IF dirs[i] \in existing THEN dirs[i]
    ELSE FirstExisting(dirs, existing, i + 1)

\* variant: the exit status of npm run build is ignored
BuildExitIgnored ==
    /\ pc = "build"
    /\ repo.build
    /\ \E ok \in BOOLEAN :
         events' = events \o << Log("Building project..."), Call("build", ok),
                                Progress(70), Progress(75) >>
    /\ artifactSource' = "buildRoot"
    /\ pc' = "copy"
    /\ UNCHANGED << pageVars, workerVars, sent, viteConfig, env, remote, search, result, job, repo, buildRoot, cloneExists, distExists, distFiles,
                    totalFiles, uploadedCount, objects, cloudFrontUrl, caught,
                    raised >>

\* variant: a build without a recognized output directory is an error
BuildNoOutputFails ==
    /\ pc = "build"
    /\ repo.build
    /\ \E existing \in SUBSET {PossibleBuildDirs[i] : i \in 1..Len(PossibleBuildDirs)} :
         LET out == FirstExisting(PossibleBuildDirs, existing, 1) IN
         IF out = "buildRoot"
         THEN /\ Throw("ArtifactLocateFailed",
                       << Log("Building project..."), Call("build", TRUE),
                          Progress(70),
                          Log("No build output folder found, using project root") >>)
              /\ UNCHANGED artifactSource
         ELSE /\ artifactSource' = out
              /\ pc' = "copy"
              /\ events' = events \o << Log("Building project..."), Call("build", TRUE),
                                        Progress(70), Log("Using build output"),
                                        Progress(75) >>
              /\ UNCHANGED caught
    /\ UNCHANGED << pageVars, workerVars, sent, viteConfig, env, remote, search, result, job, repo, buildRoot, cloneExists, distExists, distFiles,
                    totalFiles, uploadedCount, objects, cloudFrontUrl, raised >>

Build ==
    /\ pc = "build"
    /\ IF repo.build
       THEN \E ok \in BOOLEAN :
              IF ok
              THEN /\ \E existing \in SUBSET {PossibleBuildDirs[i] : i \in 1..Len(PossibleBuildDirs)} :
                        LET out == FirstExisting(PossibleBuildDirs, existing, 1) IN
                        /\ artifactSource' = out
                        /\ events' = events \o
                             << Log("Building project..."), Call("build", TRUE),
                                Log("Build complete"), Progress(70),
                                Log("=== Locating Build Output ==="),
                                Log(IF out = "buildRoot"
                                    THEN "No build output folder found, using project root"
                                    ELSE "Using build output"),
                                Progress(75) >>
                   /\ pc' = "copy"
                   /\ UNCHANGED caught
              ELSE /\ Throw("BuildFailed",
                            << Log("Building project..."), Call("build", FALSE) >>)
                   /\ UNCHANGED artifactSource
       ELSE /\ artifactSource' = "buildRoot"
            /\ pc' = "copy"
            /\ events' = events \o << Log("No build script found"), Progress(75) >>
            /\ UNCHANGED caught
    /\ UNCHANGED << pageVars, workerVars, sent, viteConfig, env, remote, search, result, job, repo, buildRoot, cloneExists, distExists, distFiles,
                    totalFiles, uploadedCount, objects, cloudFrontUrl, raised >>

\* .env, .env.production and .env.local of the build root, as readdirSync lists them
DotEnvFiles ==
    << << << ".", "env" >> >>,
       << << ".", "env", ".", "local" >> >>,
       << << ".", "env", ".", "production" >> >> >>

\* the dotenv files that cp brings into dist/{deploymentId}: those written
\* (envContent non-empty) when the directory copied is the build root itself
CopiedEnvFiles ==
    IF artifactSource = "buildRoot" /\ env.content # << >> THEN DotEnvFiles ELSE << >>

\* getAllFiles(finalDistPath): the dotenv files copied, then the files of the
\* repository or of its build
ArtifactFiles == CopiedEnvFiles \o remote.files

\* the number of files the artifact directory can hold in a run
FileLimit == IF Len(remote.files) < MaxFiles THEN Len(remote.files) ELSE MaxFiles

\* variant: the copy is not awaited, so that its failure goes unnoticed
CopyArtifactsErrorIgnored ==
    /\ pc = "copy"
    /\ \E ok \in BOOLEAN :
         /\ distExists' = TRUE
         /\ \E n \in 0..FileLimit : distFiles' = Len(CopiedEnvFiles) + n
         /\ pc' = "upload"
         /\ events' = events \o << Log("Copying to dist"), Call("cp", ok) >>
    /\ UNCHANGED << pageVars, workerVars, sent, viteConfig, env, remote, search, result, job, repo, buildRoot, artifactSource, cloneExists,
                    totalFiles, uploadedCount, objects, cloudFrontUrl, caught,
                    raised >>

\* fsPromises.cp(source, finalDistPath): a failing copy may leave a partial directory
CopyArtifacts ==
    /\ pc = "copy"
    /\ \E ok \in BOOLEAN :
         IF ok
         THEN /\ distExists' = TRUE
              /\ \E n \in 0..FileLimit : distFiles' = Len(CopiedEnvFiles) + n
              /\ pc' = "upload"
              /\ events' = events \o << Log("Copying to dist"), Call("cp", TRUE),
                                        Log("Files copied") >>
              /\ UNCHANGED caught
         ELSE /\ \E partial \in BOOLEAN : distExists' = partial
              /\ Throw("CopyFailed", << Log("Copying to dist"), Call("cp", FALSE) >>)
              /\ UNCHANGED distFiles
    /\ UNCHANGED << pageVars, workerVars, sent, viteConfig, env, remote, search, result, job, repo, buildRoot, artifactSource, cloneExists,
                    totalFiles, uploadedCount, objects, cloudFrontUrl, raised >>

\* getAllFiles(finalDistPath)
StartUpload ==
    /\ pc = "upload"
    /\ pc' = "uploadLoop"
    /\ totalFiles' = distFiles
    /\ uploadedCount' = 0
    /\ events' = events \o << Log("Uploading to S3...") >>
    /\ UNCHANGED << pageVars, workerVars, sent, viteConfig, env, remote, search, result, job, repo, buildRoot, artifactSource, cloneExists,
                    distExists, distFiles, objects, cloudFrontUrl, caught, raised >>

\* variant: the upload band is 75..100 although 95 is reported after the loop
UploadProgressWideBand(count, total) == 75 + ((count * 25) \div total)

\* variant: the fraction is rounded up
UploadProgressRoundedUp(count, total) == 75 + ((count * 20 + total - 1) \div total)

\* variant: without a distribution identifier the upload band is 75..100
UploadProgressByDistribution(count, total) ==
    75 + ((count * (IF job.distributionId = "" THEN 25 ELSE 20)) \div total)

\* 75 + Math.floor((uploadedCount / totalFiles) * 20)
UploadProgress(count, total) == 75 + ((count * 20) \div total)

\* variant: a failed PUT is skipped and the loop goes on with the next file
UploadFileSkipFailed ==
    /\ pc = "uploadLoop"
    /\ uploadedCount < totalFiles
    /\ \E ok \in BOOLEAN :
         /\ objects' = IF ok
                       THEN objects \cup {S3Key(job.deploymentId,
                                                RelativePath(ArtifactFiles[uploadedCount + 1]))}
                       ELSE objects
         /\ uploadedCount' = uploadedCount + 1
         /\ events' = events \o << Ev("put", IF ok THEN "ok" ELSE "fail", uploadedCount + 1) >>
    /\ sent' = Append(sent, PutObjectCommand(job.deploymentId, ArtifactFiles[uploadedCount + 1]))
    /\ UNCHANGED << pageVars, workerVars, viteConfig, env, remote, search, result, pc, job, repo, buildRoot, artifactSource, cloneExists,
                    distExists, distFiles, totalFiles, cloudFrontUrl, caught,
                    raised >>

\* one iteration of the upload loop: the PUT of file number uploadedCount + 1
UploadFile ==
    /\ pc = "uploadLoop"
    /\ uploadedCount < totalFiles
    /\ \E ok \in BOOLEAN :
         IF ok
         THEN /\ objects' = objects \cup {S3Key(job.deploymentId,
                                                RelativePath(ArtifactFiles[uploadedCount + 1]))}
              /\ uploadedCount' = uploadedCount + 1
              /\ events' = events \o
                   << Ev("put", "ok", uploadedCount + 1),
                      Progress(UploadProgress(uploadedCount + 1, totalFiles)) >>
              /\ UNCHANGED << pc, caught >>
         ELSE /\ Throw("UploadFailed", << Ev("put", "fail", uploadedCount + 1) >>)
              /\ UNCHANGED << objects, uploadedCount >>
    /\ sent' = Append(sent, PutObjectCommand(job.deploymentId, ArtifactFiles[uploadedCount + 1]))
    /\ UNCHANGED << pageVars, workerVars, viteConfig, env, remote, search, result, job, repo, buildRoot, artifactSource, cloneExists,
                    distExists, distFiles, totalFiles, cloudFrontUrl, raised >>

\* variant: the loop ends one file early
FinishUploadEarly ==
    /\ pc = "uploadLoop"
    /\ uploadedCount + 1 >= totalFiles
    /\ pc' = "invalidate"
    /\ events' = events \o << Log("Upload complete"), Progress(95) >>
    /\ UNCHANGED << pageVars, workerVars, sent, viteConfig, env, remote, search, result, job, repo, buildRoot, artifactSource, cloneExists,
                    distExists, distFiles, totalFiles, uploadedCount, objects,
                    cloudFrontUrl, caught, raised >>

\* the loop is exhausted
FinishUpload ==
    /\ pc = "uploadLoop"
    /\ uploadedCount >= totalFiles
    /\ pc' = "invalidate"
    /\ events' = events \o << Log("Upload complete"), Progress(95) >>
    /\ UNCHANGED << pageVars, workerVars, sent, viteConfig, env, remote, search, result, job, repo, buildRoot, artifactSource, cloneExists,
                    distExists, distFiles, totalFiles, uploadedCount, objects,
                    cloudFrontUrl, caught, raised >>

\* variant: a failed invalidation request is thrown to the catch block
InvalidateCacheFatal ==
    /\ pc = "invalidate"
    /\ IF job.distributionId # ""
       THEN \E ok \in BOOLEAN :
              IF ok
              THEN /\ pc' = "cleanup"
                   /\ cloudFrontUrl' = CdnUrl(job.deploymentId)
                   /\ events' = events \o
                        << Log("Invalidating CloudFront cache..."), Call("invalidate", TRUE),
                           Log("Cache invalidated"),
                           Log("CloudFront URL: " \o CdnUrl(job.deploymentId)) >>
                   /\ UNCHANGED caught
              ELSE /\ Throw("InvalidationFailed",
                            << Log("Invalidating CloudFront cache..."),
                               Call("invalidate", FALSE) >>)
                   /\ UNCHANGED cloudFrontUrl
       ELSE /\ pc' = "cleanup"
            /\ UNCHANGED << cloudFrontUrl, events, caught >>
    /\ UNCHANGED << pageVars, workerVars, sent, viteConfig, env, remote, search, result, job, repo, buildRoot, artifactSource, cloneExists,
                    distExists, distFiles, totalFiles, uploadedCount, objects,
                    raised >>

\* variant: the CDN URL is set as soon as the invalidation was attempted
InvalidateCacheUrlOnAttempt ==
    /\ pc = "invalidate"
    /\ pc' = "cleanup"
    /\ IF job.distributionId # ""
       THEN \E ok \in BOOLEAN :
              /\ cloudFrontUrl' = CdnUrl(job.deploymentId)
              /\ events' = events \o
                   << Log("Invalidating CloudFront cache..."), Call("invalidate", ok) >>
                   \o (IF ok THEN << Log("Cache invalidated") >> ELSE << >>)
       ELSE UNCHANGED << cloudFrontUrl, events >>
    /\ UNCHANGED << pageVars, workerVars, sent, viteConfig, env, remote, search, result, job, repo, buildRoot, artifactSource, cloneExists,
                    distExists, distFiles, totalFiles, uploadedCount, objects,
                    caught, raised >>

\* invalidateDeploymentCache catches the request's error and returns false
InvalidateCache ==
    /\ pc = "invalidate"
    /\ pc' = "cleanup"
    /\ IF job.distributionId # ""
       THEN \E ok \in BOOLEAN :
              /\ cloudFrontUrl' = IF ok THEN CdnUrl(job.deploymentId) ELSE "null"
              /\ events' = events \o
                   << Log("Invalidating CloudFront cache..."), Call("invalidate", ok) >>
                   \o (IF ok THEN << Log("Cache invalidated"),
                                      Log("CloudFront URL: " \o CdnUrl(job.deploymentId)) >>
                             ELSE << >>)
       ELSE UNCHANGED << cloudFrontUrl, events >>
    /\ UNCHANGED << pageVars, workerVars, sent, viteConfig, env, remote, search, result, job, repo, buildRoot, artifactSource, cloneExists,
                    distExists, distFiles, totalFiles, uploadedCount, objects,
                    caught, raised >>

\* variant: the success path removes dist/{deploymentId} as well
CleanupRemovesDist ==
    /\ pc = "cleanup"
    /\ \E ok \in BOOLEAN :
         IF ok
         THEN /\ cloneExists' = FALSE
              /\ distExists' = FALSE
              /\ pc' = "finish"
              /\ events' = events \o << Log("Cleaning up..."), Call("rmClone", TRUE) >>
              /\ UNCHANGED caught
         ELSE /\ Throw("RemoveFailed", << Log("Cleaning up..."), Call("rmClone", FALSE) >>)
              /\ UNCHANGED << cloneExists, distExists >>
    /\ UNCHANGED << pageVars, workerVars, sent, viteConfig, env, remote, search, result, job, repo, buildRoot, artifactSource, distFiles,
                    totalFiles, uploadedCount, objects, cloudFrontUrl, raised >>

\* fsPromises.rm(tempClonePath) of the try block; it throws when the removal fails
Cleanup ==
    /\ pc = "cleanup"
    /\ \E ok \in BOOLEAN :
         IF ok
         THEN /\ cloneExists' = FALSE
              /\ pc' = "finish"
              /\ events' = events \o << Log("Cleaning up..."), Call("rmClone", TRUE) >>
              /\ UNCHANGED caught
         ELSE /\ Throw("RemoveFailed", << Log("Cleaning up..."), Call("rmClone", FALSE) >>)
              /\ UNCHANGED cloneExists
    /\ UNCHANGED << pageVars, workerVars, sent, viteConfig, env, remote, search, result, job, repo, buildRoot, artifactSource, distExists, distFiles,
                    totalFiles, uploadedCount, objects, cloudFrontUrl, raised >>

Finish ==
    /\ pc = "finish"
    /\ pc' = "done"
    /\ events' = events \o << Progress(100), Log("=== SUCCESS ==="), Ev("return", "", 0) >>
    /\ result' = [success |-> TRUE,
                  deploymentId |-> job.deploymentId,
                  bucket |-> Bucket,
                  totalFiles |-> totalFiles,
                  uploadedCount |-> uploadedCount,
                  s3Url |-> S3DirectUrl(job.deploymentId),
                  cloudFrontUrl |-> cloudFrontUrl,
                  cloudFrontDistributionId |-> job.distributionId,
                  s3Path |-> S3Path(job.deploymentId),
                  localPath |-> FinalDistPath(job.deploymentId)]
    /\ UNCHANGED << pageVars, workerVars, sent, viteConfig, env, remote, search, job, repo, buildRoot, artifactSource, cloneExists,
                    distExists, distFiles, totalFiles, uploadedCount, objects,
                    cloudFrontUrl, caught, raised >>

(***************************************************************************)
(* The catch block                                                          *)
(***************************************************************************)
CatchLog ==
    /\ pc = "catch"
    /\ pc' = "catchRmClone"
    /\ events' = events \o << Log("=== ERROR ==="), Ev("logMessage", caught, 0) >>
    /\ UNCHANGED << pageVars, workerVars, sent, viteConfig, env, remote, search, result, job, repo, buildRoot, artifactSource, cloneExists,
                    distExists, distFiles, totalFiles, uploadedCount, objects,
                    cloudFrontUrl, caught, raised >>

\* variant: the catch block does not remove the clone
CatchRemoveCloneSkipped ==
    /\ pc = "catchRmClone"
    /\ pc' = "catchRmDist"
    /\ UNCHANGED << pageVars, workerVars, sent, viteConfig, env, remote, search, result, job, repo, buildRoot, artifactSource, cloneExists,
                    distExists, distFiles, totalFiles, uploadedCount, objects,
                    cloudFrontUrl, caught, raised, events >>

\* first statement of the inner try: a failing removal leaves the inner try
CatchRemoveClone ==
    /\ pc = "catchRmClone"
    /\ IF cloneExists
       THEN \E ok \in BOOLEAN :
              /\ cloneExists' = ~ok
              /\ pc' = IF ok THEN "catchRmDist" ELSE "rethrow"
              /\ events' = events \o << Call("catchRmClone", ok) >>
       ELSE /\ pc' = "catchRmDist"
            /\ UNCHANGED << cloneExists, events >>
    /\ UNCHANGED << pageVars, workerVars, sent, viteConfig, env, remote, search, result, job, repo, buildRoot, artifactSource, distExists, distFiles,
                    totalFiles, uploadedCount, objects, cloudFrontUrl, caught,
                    raised >>

\* second statement of the inner try
CatchRemoveDist ==
    /\ pc = "catchRmDist"
    /\ pc' = "rethrow"
    /\ IF distExists
       THEN \E ok \in BOOLEAN :
              /\ distExists' = ~ok
              /\ events' = events \o << Call("catchRmDist", ok) >>
       ELSE UNCHANGED << distExists, events >>
    /\ UNCHANGED << pageVars, workerVars, sent, viteConfig, env, remote, search, result, job, repo, buildRoot, artifactSource, cloneExists, distFiles,
                    totalFiles, uploadedCount, objects, cloudFrontUrl, caught,
                    raised >>

\* variant: a cleanup error replaces the error that was caught
RethrowCleanupError ==
    /\ pc = "rethrow"
    /\ pc' = "failed"
    /\ LET e == IF \E i \in DOMAIN events :
                       /\ events[i].op \in {"catchRmClone", "catchRmDist"}
                       /\ events[i].s = "fail"
                THEN "CleanupError" ELSE caught IN
       /\ raised' = e
       /\ events' = events \o << Ev("raise", e, 0) >>
    /\ UNCHANGED << pageVars, workerVars, sent, viteConfig, env, remote, search, result, job, repo, buildRoot, artifactSource, cloneExists,
                    distExists, distFiles, totalFiles, uploadedCount, objects,
                    cloudFrontUrl, caught >>

\* throw error
Rethrow ==
    /\ pc = "rethrow"
    /\ pc' = "failed"
    /\ raised' = caught
    /\ events' = events \o << Ev("raise", caught, 0) >>
    /\ UNCHANGED << pageVars, workerVars, sent, viteConfig, env, remote, search, result, job, repo, buildRoot, artifactSource, cloneExists,
                    distExists, distFiles, totalFiles, uploadedCount, objects,
                    cloudFrontUrl, caught >>

Next ==
    \/ Start
    \/ CloneRepository
    \/ CheckoutBranch
    \/ LocateBuildRoot
    \/ DetectProjectType
    \/ ComposeEnvironment
    \/ InstallDependencies
    \/ PatchConfig
    \/ Build
    \/ CopyArtifacts
    \/ StartUpload
    \/ UploadFile
    \/ FinishUpload
    \/ InvalidateCache
    \/ Cleanup
    \/ Finish
    \/ CatchLog
    \/ CatchRemoveClone
    \/ CatchRemoveDist
    \/ Rethrow

Spec == Init /\ [][Next]_vars

(***************************************************************************)
(* Runs over every bounded tree: the same handler, started with each tree   *)
(* of SearchTrees and each requested directory name.                        *)
(***************************************************************************)
SearchTargets == {"frontend", ".git", "node_modules"}

SearchJobs == [deploymentId : DeploymentIds, branch : {"main"},
               buildPath : SearchTargets, backendUrl : {""},
               envVariables : { << >> }, distributionId : {"E1"}]

StaticManifest == [pkg |-> "none", deps |-> FALSE, build |-> FALSE,
                   vite |-> FALSE, cra |-> FALSE]
ViteManifest == [pkg |-> "valid", deps |-> TRUE, build |-> TRUE,
                 vite |-> TRUE, cra |-> FALSE]

SearchRemotes ==
    { Remote(t, StaticManifest, NoConfigFiles, WalkedFiles) :
        t \in SearchTrees \cup PipelineTrees \cup DeepTrees \cup ForkedTrees }
      \cup { Remote(t, ViteManifest, NoConfigFiles, WalkedFiles) : t \in PipelineTrees }

InitSearch ==
    /\ pc = "start"
    /\ job \in SearchJobs
    /\ repo = NoRepo
    /\ buildRoot = "none"
    /\ artifactSource = "none"
    /\ cloneExists = FALSE
    /\ distExists = FALSE
    /\ distFiles = 0
    /\ totalFiles = 0
    /\ uploadedCount = 0
    /\ objects = {}
    /\ sent = << >>
    /\ cloudFrontUrl = "null"
    /\ caught = "none"
    /\ raised = "none"
    /\ events = << >>
    /\ remote \in SearchRemotes
    /\ viteConfig = NoConfigFiles
    /\ env = NoEnv
    /\ waiting = {} /\ slots = IdleSlots /\ localDirs = {} /\ touches = {}
    /\ PageInit
    /\ search = NoSearch
    /\ result = NoResult

SpecSearch == InitSearch /\ [][Next]_vars

(***************************************************************************)
(* The worker: the handlers of several jobs run side by side                *)
(*                                                                          *)
(* slots maps every job whose handler is running to the stage the handler   *)
(* is about to run; each handler is buildAndDeploy reduced to the local     *)
(* directories, object keys and invalidation paths it acts on.  touches     *)
(* records who did what to which resource.  A deployment identifier is a    *)
(* sequence of pieces of text, so that one identifier can be the beginning  *)
(* of another.                                                              *)
(***************************************************************************)
WorkerIds == { << "d1" >>, << "d1", "x" >>, << "d2" >> }

\* path.join(projectRoot, "temp"), path.join(projectRoot, "dist")
TempDir == << "temp" >>
DistDir == << "dist" >>

\* variant: the clone directory does not carry the deployment identifier
TempClonePathShared(id) == TempDir \o << "/", "clone" >>

\* path.join(projectRoot, "temp", `clone-${deploymentId}`)
TempClonePath(id) == TempDir \o << "/", "clone-" >> \o id

\* path.join(projectRoot, "dist", deploymentId)
DistPath(id) == DistDir \o << "/" >> \o id

\* the s3Key of a file of job id
KeyOf(id, file) == id \o << "/" >> \o ReplaceBackslashes(RelativePath(file))

\* the files every job of the worker uploads
WorkerFiles == << WalkedFiles[1], WalkedFiles[2] >>

\* Paths.Items of the invalidation
InvalidationPaths(id) ==
    { << "/" >> \o id \o << "/", "*" >>,
      << "/" >> \o id \o << "/", "index", ".", "html" >> }

Touch(id, op, res) == [job |-> id, op |-> op, res |-> res]

Running == DOMAIN slots

\* slots without the handler of job id
Release(id) == [j \in Running \ {id} |-> slots[j]]

pipelineVars == << pc, job, repo, buildRoot, artifactSource, cloneExists, distExists,
                   distFiles, totalFiles, uploadedCount, objects, sent, cloudFrontUrl,
                   caught, raised, events, remote, search, result, viteConfig, env >>

\* variant: a waiting job is started whatever the number of running handlers
TakeJobUnbounded(id) ==
    /\ id \in waiting
    /\ waiting' = waiting \ {id}
    /\ slots' = Put(slots, id, "clone")
    /\ touches' = touches \cup {Touch(id, "take", << >>)}
    /\ UNCHANGED << localDirs, pipelineVars, pageVars >>

\* the worker starts the handler of a waiting job when fewer than
\* `concurrency` handlers are running
TakeJob(id) ==
    /\ id \in waiting
    /\ Cardinality(Running) < Concurrency
    /\ waiting' = waiting \ {id}
    /\ slots' = Put(slots, id, "clone")
    /\ touches' = touches \cup {Touch(id, "take", << >>)}
    /\ UNCHANGED << localDirs, pipelineVars, pageVars >>

\* mkdir(path.dirname(tempClonePath), { recursive: true }) and git clone
WorkerClone(id) ==
    /\ id \in Running /\ slots[id] = "clone"
    /\ \E ok \in BOOLEAN :
         /\ slots' = Put(slots, id, IF ok THEN "build" ELSE "catch")
         /\ \E made \in (IF ok THEN {TRUE} ELSE BOOLEAN) :
              /\ localDirs' = localDirs \cup {TempDir}
                                  \cup (IF made THEN {TempClonePath(id)} ELSE {})
              /\ touches' = touches
                    \cup (IF TempDir \in localDirs THEN {}
                          ELSE {Touch(id, "create", TempDir)})
                    \cup (IF made THEN {Touch(id, "create", TempClonePath(id))} ELSE {})
    /\ UNCHANGED << waiting, pipelineVars, pageVars >>

\* the dotenv files, the patched config, npm install and the build: all
\* written below the clone directory
WorkerBuild(id) ==
    /\ id \in Running /\ slots[id] = "build"
    /\ \E ok \in BOOLEAN : slots' = Put(slots, id, IF ok THEN "copy" ELSE "catch")
    /\ touches' = touches \cup {Touch(id, "write", TempClonePath(id))}
    /\ UNCHANGED << waiting, localDirs, pipelineVars, pageVars >>

\* mkdir(path.dirname(finalDistPath), { recursive: true }) and cp
WorkerCopy(id) ==
    /\ id \in Running /\ slots[id] = "copy"
    /\ \E ok \in BOOLEAN :
         /\ slots' = Put(slots, id, IF ok THEN "upload" ELSE "catch")
         /\ \E made \in (IF ok THEN {TRUE} ELSE BOOLEAN) :
              /\ localDirs' = localDirs \cup {DistDir}
                                  \cup (IF made THEN {DistPath(id)} ELSE {})
              /\ touches' = touches
                    \cup (IF DistDir \in localDirs THEN {}
                          ELSE {Touch(id, "create", DistDir)})
                    \cup (IF made THEN {Touch(id, "create", DistPath(id))} ELSE {})
    /\ UNCHANGED << waiting, pipelineVars, pageVars >>

\* the upload loop: the PUTs up to the first that fails
WorkerUpload(id) ==
    /\ id \in Running /\ slots[id] = "upload"
    /\ \E n \in 0..Len(WorkerFiles) :
         /\ slots' = Put(slots, id, IF n = Len(WorkerFiles) THEN "invalidate" ELSE "catch")
         /\ touches' = touches
               \cup { Touch(id, "put", KeyOf(id, WorkerFiles[k])) :
                        k \in 1..(IF n = Len(WorkerFiles) THEN n ELSE n + 1) }
    /\ UNCHANGED << waiting, localDirs, pipelineVars, pageVars >>

\* invalidateDeploymentCache: a failure is not fatal
WorkerInvalidate(id) ==
    /\ id \in Running /\ slots[id] = "invalidate"
    /\ slots' = Put(slots, id, "cleanup")
    /\ touches' = touches \cup { Touch(id, "invalidate", p) : p \in InvalidationPaths(id) }
    /\ UNCHANGED << waiting, localDirs, pipelineVars, pageVars >>

\* rm(tempClonePath), then the handler returns
WorkerCleanup(id) ==
    /\ id \in Running /\ slots[id] = "cleanup"
    /\ \E ok \in BOOLEAN :
         IF ok
         THEN /\ localDirs' = localDirs \ {TempClonePath(id)}
              /\ touches' = touches \cup {Touch(id, "remove", TempClonePath(id)),
                                          Touch(id, "return", << >>)}
              /\ slots' = Release(id)
         ELSE /\ touches' = touches \cup {Touch(id, "remove", TempClonePath(id))}
              /\ slots' = Put(slots, id, "catch")
              /\ UNCHANGED localDirs
    /\ UNCHANGED << waiting, pipelineVars, pageVars >>

\* the catch block: the two removals, then the error is thrown again
WorkerCatch(id) ==
    /\ id \in Running /\ slots[id] = "catch"
    /\ localDirs' = localDirs \ {TempClonePath(id), DistPath(id)}
    /\ touches' = touches
          \cup { Touch(id, "remove", d) : d \in {TempClonePath(id), DistPath(id)} \cap localDirs }
          \cup {Touch(id, "raise", << >>)}
    /\ slots' = Release(id)
    /\ UNCHANGED << waiting, pipelineVars, pageVars >>

NextWorker ==
    \E id \in WorkerIds :
        \/ TakeJob(id)
        \/ WorkerClone(id)
        \/ WorkerBuild(id)
        \/ WorkerCopy(id)
        \/ WorkerUpload(id)
        \/ WorkerInvalidate(id)
        \/ WorkerCleanup(id)
        \/ WorkerCatch(id)

\* the jobs are in the queue; temp and dist may exist already
InitWorker ==
    /\ pc = "start"
    /\ job = [deploymentId |-> "d1", branch |-> "main", buildPath |-> "",
              backendUrl |-> "", envVariables |-> << >>, distributionId |-> "E1"]
    /\ remote = Remote(RepositoryAtRoot, StaticManifest, NoConfigFiles, WorkerFiles)
    /\ repo = NoRepo
    /\ buildRoot = "none"
    /\ artifactSource = "none"
    /\ cloneExists = FALSE
    /\ distExists = FALSE
    /\ distFiles = 0
    /\ totalFiles = 0
    /\ uploadedCount = 0
    /\ objects = {}
    /\ sent = << >>
    /\ cloudFrontUrl = "null"
    /\ caught = "none"
    /\ raised = "none"
    /\ events = << >>
    /\ viteConfig = NoConfigFiles
    /\ env = NoEnv
    /\ search = NoSearch
    /\ result = NoResult
    /\ waiting = WorkerIds
    /\ slots = IdleSlots
    /\ localDirs \in { {}, {TempDir, DistDir} }
    /\ touches = {}
    /\ PageInit

SpecWorker == InitWorker /\ [][NextWorker]_vars

(***************************************************************************)
(* Runs over the inputs of the text-processing stages: the same handler,    *)
(* started on a Vite project with each of the config files considered.      *)
(***************************************************************************)
InputJob == [deploymentId |-> "d1", branch |-> "main", buildPath |-> "",
             backendUrl |-> "", envVariables |-> << >>, distributionId |-> "E1"]

ViteCases ==
    { [job |-> InputJob,
       remote |-> Remote(RepositoryAtRoot, ViteManifest, c, WalkedFiles)] :
        c \in ViteConfigFiles }

\* the lines a variable block is made of
EnvLines ==
    { << "A", "=", "1" >>,
      << "A", "=", "2" >>,
      << "A", "=", "B", "=", "C" >>,
      << " ", "A", " ", "=", " ", "1", " " >>,
      << "=", "value" >>,
      << "novalue" >>,
      << "#", " ", "c" >>,
      << " ", "#", "B", "=", "2" >>,
      << >>,
      << "VITE_API_URL", "=", "x" >> }

MaxLines == 2

\* the blocks of 1 to MaxLines lines
InputBlocks ==
    { Join(lines, "\n") : lines \in UNION { [1..n -> EnvLines] : n \in 1..MaxLines } }

BuildManifest == [pkg |-> "valid", deps |-> FALSE, build |-> TRUE,
                  vite |-> FALSE, cra |-> FALSE]

EnvCases ==
    { [job |-> [InputJob EXCEPT !.backendUrl = u, !.envVariables = b],
       remote |-> Remote(RepositoryAtRoot, BuildManifest, NoConfigFiles,
                         << WalkedFiles[1] >>)] :
        u \in BackendUrls, b \in InputBlocks }

\* file names for the content type: every extension of the table, upper and
\* mixed case, unknown extensions, several dots, no extension, a leading dot,
\* a dot in a directory name only
TypedFiles ==
    { << << "f", ".", e >> >> :
        e \in {"html", "css", "js", "json", "png", "jpg", "jpeg", "gif", "svg", "ico",
               "txt", "pdf", "woff", "woff2", "ttf", "eot"} }
      \cup { << << "INDEX", ".", "HTML" >> >>,
             << << "assets" >>, << "App", ".", "Js" >> >>,
             << << "logo", ".", "PNG" >> >>,
             << << "data", ".", "xyz" >> >>,
             << << "data", ".", "XYZ" >> >>,
             << << "app", ".", "min", ".", "js" >> >>,
             << << "site", ".", "tar", ".", "gz" >> >>,
             << << "LICENSE" >> >>,
             << << ".", "html" >> >>,
             << << "v1", ".", "js" >>, << "readme" >> >>,
             << << "name", "." >> >>,
             << << "page", ".", "html", ".", "map" >> >> }

TypeCases ==
    { [job |-> InputJob,
       remote |-> Remote(RepositoryAtRoot, StaticManifest, NoConfigFiles, << f >>)] :
        f \in TypedFiles }
      \cup { [job |-> InputJob,
               remote |-> Remote(RepositoryAtRoot, StaticManifest, NoConfigFiles,
                                 << << << "index", ".", "html" >> >>,
                                    << << "old" >>, << "INDEX", ".", "HTML" >> >>,
                                    << << "index", ".", "htm" >> >> >>)] }

InputCases == ViteCases \cup EnvCases \cup TypeCases

InitInputs ==
    /\ pc = "start"
    /\ \E c \in InputCases : job = c.job /\ remote = c.remote
    /\ repo = NoRepo
    /\ buildRoot = "none"
    /\ artifactSource = "none"
    /\ cloneExists = FALSE
    /\ distExists = FALSE
    /\ distFiles = 0
    /\ totalFiles = 0
    /\ uploadedCount = 0
    /\ objects = {}
    /\ sent = << >>
    /\ cloudFrontUrl = "null"
    /\ caught = "none"
    /\ raised = "none"
    /\ events = << >>
    /\ search = NoSearch
    /\ result = NoResult
    /\ viteConfig = NoConfigFiles
    /\ env = NoEnv
    /\ waiting = {} /\ slots = IdleSlots /\ localDirs = {} /\ touches = {}
    /\ PageInit

SpecInputs == InitInputs /\ [][Next]_vars

(***************************************************************************)
(* The deploy page: handleDeploy, its POST, the polling effect and the      *)
(* reset buttons.  The POST handler and the status and log endpoints answer *)
(* or fail nondeterministically; responses arrive in any order.             *)
(***************************************************************************)
\* the polling effect, run after a render in which jobId or deploying
\* changed: the timer of the previous render is cleared, and a timer that
\* polls jId is started when jId is set and dep is true
PollingEffect(jId, dep) == IF jId # NoJob /\ dep THEN jId ELSE NoJob

\* the callbacks of the timer that have not finished
InFlight == { i \in PollIds : polls[i] # NoPoll }

\* "Deploy Now": shown while nothing deploys and no result or error is shown
handleDeploy ==
    /\ ~deploying /\ deploymentResult = NoJob /\ error = NoError
    /\ submitted < MaxDeployments
    /\ deploying' = TRUE
    /\ error' = NoError
    /\ deploymentResult' = NoJob
    /\ submitted' = submitted + 1
    /\ posts' = posts \cup {submitted + 1}
    /\ pollInterval' = PollingEffect(jobId, TRUE)
    /\ UNCHANGED << jobId, polls, jobs, pipelineVars, workerVars >>

\* handleDeploy after its await: the response of POST /api/deploy, or the
\* rejection of the fetch
PostResponse(n) ==
    /\ n \in posts
    /\ posts' = posts \ {n}
    /\ \E ok \in BOOLEAN :
         IF ok
         THEN /\ jobId' = n
              /\ jobs' = [jobs EXCEPT ![n] = "active"]
              /\ pollInterval' = PollingEffect(n, deploying)
              /\ UNCHANGED << error, deploying >>
         ELSE /\ error' = [from |-> "post", job |-> n]
              /\ deploying' = FALSE
              /\ pollInterval' = PollingEffect(jobId, FALSE)
              /\ UNCHANGED << jobId, jobs >>
    /\ UNCHANGED << deploymentResult, polls, submitted, pipelineVars, workerVars >>

\* the timer fires: the callback requests the logs of the job id of the
\* render that started the timer
PollTick ==
    /\ pollInterval # NoJob
    /\ InFlight # PollIds
    /\ LET i == CHOOSE k \in PollIds \ InFlight : \A m \in PollIds \ InFlight : k <= m
       IN  polls' = [polls EXCEPT ![i] = [job |-> pollInterval, stage |-> "logs"]]
    /\ UNCHANGED << deploying, deploymentResult, error, jobId, pollInterval, posts,
                    jobs, submitted, pipelineVars, workerVars >>

\* the log request is answered and the status of the same job id is
\* requested, or the request fails and the callback ends in its catch
LogsResponse(i) ==
    /\ i \in InFlight /\ polls[i].stage = "logs"
    /\ \E ok \in BOOLEAN :
         polls' = [polls EXCEPT ![i] = IF ok THEN [job |-> polls[i].job, stage |-> "status"]
                                            ELSE NoPoll]
    /\ UNCHANGED << deploying, deploymentResult, error, jobId, pollInterval, posts,
                    jobs, submitted, pipelineVars, workerVars >>

\* the status request is answered, or fails
StatusResponse(i) ==
    /\ i \in InFlight /\ polls[i].stage = "status"
    /\ polls' = [polls EXCEPT ![i] = NoPoll]
    /\ \E ok \in BOOLEAN :
         LET j == polls[i].job IN
         IF ok /\ jobs[j] = "completed"
         THEN /\ deploymentResult' = j
              /\ deploying' = FALSE
              /\ pollInterval' = PollingEffect(jobId, FALSE)
              /\ UNCHANGED error
         ELSE IF ok /\ jobs[j] = "failed"
         THEN /\ error' = [from |-> "poll", job |-> j]
              /\ deploying' = FALSE
              /\ pollInterval' = PollingEffect(jobId, FALSE)
              /\ UNCHANGED deploymentResult
         ELSE UNCHANGED << deploymentResult, error, deploying, pollInterval >>
    /\ UNCHANGED << jobId, posts, jobs, submitted, pipelineVars, workerVars >>

\* "Deploy Another Project" and "Try Again"
ResetPage ==
    /\ deploymentResult # NoJob \/ error # NoError
    /\ deploymentResult' = NoJob
    /\ error' = NoError
    /\ UNCHANGED << deploying, jobId, pollInterval, polls, posts, jobs, submitted,
                    pipelineVars, workerVars >>

\* the worker's handler of job j returns its result, or throws
JobEnds(j) ==
    /\ jobs[j] = "active"
    /\ \E s \in {"completed", "failed"} : jobs' = [jobs EXCEPT ![j] = s]
    /\ UNCHANGED << deploying, deploymentResult, error, jobId, pollInterval, polls,
                    posts, submitted, pipelineVars, workerVars >>

NextPage ==
    \/ handleDeploy
    \/ \E n \in JobIds : PostResponse(n)
    \/ PollTick
    \/ \E i \in PollIds : LogsResponse(i)
    \/ \E i \in PollIds : StatusResponse(i)
    \/ ResetPage
    \/ \E j \in JobIds : JobEnds(j)

InitPage ==
    /\ PageInit
    /\ pc = "start"
    /\ job = [deploymentId |-> "d1", branch |-> "main", buildPath |-> "",
              backendUrl |-> "", envVariables |-> << >>, distributionId |-> "E1"]
    /\ remote = Remote(RepositoryAtRoot, StaticManifest, NoConfigFiles, WorkerFiles)
    /\ repo = NoRepo
    /\ buildRoot = "none"
    /\ artifactSource = "none"
    /\ cloneExists = FALSE
    /\ distExists = FALSE
    /\ distFiles = 0
    /\ totalFiles = 0
    /\ uploadedCount = 0
    /\ objects = {}
    /\ sent = << >>
    /\ cloudFrontUrl = "null"
    /\ caught = "none"
    /\ raised = "none"
    /\ events = << >>
    /\ viteConfig = NoConfigFiles
    /\ env = NoEnv
    /\ search = NoSearch
    /\ result = NoResult
    /\ waiting = {}
    /\ slots = IdleSlots
    /\ localDirs = {}
    /\ touches = {}

SpecPage == InitPage /\ [][NextPage]_vars

\* the same page when the timer keeps firing and requests keep being answered
SpecPageLive ==
    /\ SpecPage
    /\ WF_vars(PollTick)
    /\ \A i \in PollIds : SF_vars(LogsResponse(i) /\ polls'[i] # NoPoll)
    /\ \A i \in PollIds :
         SF_vars(StatusResponse(i) /\ (jobs[polls[i].job] # "active" => ~deploying'))

(***************************************************************************)
(* Properties of one job run                                                *)
(***************************************************************************)
Finished == pc \in {"done", "failed"}
\* the keys of the files numbered in S
KeysOfFiles(S) == { S3Key(job.deploymentId, RelativePath(ArtifactFiles[k])) : k \in S }
At(op) == {i \in DOMAIN events : events[i].op = op}
Failed(op) == {i \in At(op) : events[i].s = "fail"}
Succeeded(op) == {i \in At(op) : events[i].s = "ok"}
CloneRemovals == At("rmClone") \cup At("catchRmClone")
LastCloneRemovalFailed ==
    /\ CloneRemovals # {}
    /\ \E i \in CloneRemovals :
         /\ \A j \in CloneRemovals : j <= i
         /\ events[i].s = "fail"

\* C1: the values passed to job.updateProgress are non-decreasing on every
\* path of a run, and each lies in 0..100.
C1_ProgressMonotone ==
    /\ \A i \in At("progress") : events[i].n \in 0..100
    /\ \A i, j \in At("progress") : i < j => events[i].n <= events[j].n

\* a run that built, uploaded several files and returned
C1_Witness ==
    /\ pc = "done"
    /\ repo.build /\ repo.deps
    /\ uploadedCount >= 2
    /\ Cardinality(At("progress")) >= 9

\* C2 as stated: whenever the handler has returned or raised, also after a
\* removal call failed, temp/clone-{deploymentId} does not exist.
C2_CloneGoneAlways == Finished => ~cloneExists

\* C2 amended: whenever the handler has returned or raised and the last
\* removal attempted on the clone did not fail, the clone does not exist.
C2_CloneGoneUnlessRemovalFailed ==
    (Finished /\ ~LastCloneRemovalFailed) => ~cloneExists

\* the handler raised after the catch block removed an existing clone
C2_Witness ==
    /\ pc = "failed"
    /\ Succeeded("catchRmClone") # {}
    /\ ~cloneExists

\* C3 as stated: after npm run build exits non-zero nothing is uploaded or
\* invalidated, the handler raises the build's error, and when it raises
\* neither the clone nor dist/{deploymentId} exists.
C3_BuildFailureLeavesNothing ==
    Failed("build") # {} =>
        /\ At("put") = {} /\ At("invalidate") = {} /\ objects = {}
        /\ pc # "done"
        /\ pc = "failed" => /\ raised = "BuildFailed"
                            /\ ~cloneExists
                            /\ ~distExists

\* C3 amended: the same, with the clone gone unless its removal in the catch
\* block failed.
C3_BuildFailureBestEffort ==
    Failed("build") # {} =>
        /\ At("put") = {} /\ At("invalidate") = {} /\ objects = {}
        /\ pc # "done"
        /\ pc = "failed" => /\ raised = "BuildFailed"
                            /\ ~distExists
                            /\ ~LastCloneRemovalFailed => ~cloneExists

\* the build failed, the catch block removed the clone, the handler raised
C3_Witness ==
    /\ pc = "failed"
    /\ Failed("build") # {}
    /\ raised = "BuildFailed"
    /\ ~cloneExists

\* C4: when the handler raises and dist/{deploymentId} existed at the time of
\* the error, its removal was attempted, also when the removal of the clone
\* failed.  (Nothing creates the directory in the catch block, and only a
\* removal deletes it: the directory existed at the time of the error and no
\* removal was attempted exactly if it exists at the raise with no attempt.)
C4_DistRemovalAttempted ==
    (pc = "failed" /\ distExists) => At("catchRmDist") # {}

\* C5: on failure the handler logs '=== ERROR ===', then the error's message,
\* then attempts cleanup, then raises; and it raises the error it caught, also
\* when a cleanup removal fails.
C5_ErrorOrderAndIdentity ==
    LET inCatch == pc \in {"catchRmClone", "catchRmDist", "rethrow", "failed"}
        markers == {i \in DOMAIN events : events[i] = Log("=== ERROR ===")}
        cleanupOps == {"catchRmClone", "catchRmDist"}
    IN  /\ ~inCatch => markers = {} /\ At("raise") = {} /\ At("catchRmClone") = {}
                       /\ At("catchRmDist") = {} /\ raised = "none"
        /\ inCatch =>
             \E m \in markers :
                /\ markers = {m}
                /\ m + 1 \in DOMAIN events
                /\ events[m + 1] = Ev("logMessage", caught, 0)
                /\ \A j \in DOMAIN events :
                      /\ j < m => events[j].op \notin (cleanupOps \cup {"raise"})
                      /\ j > m + 1 => events[j].op \in (cleanupOps \cup {"raise"})
                /\ \A j \in At("raise") : j = Len(events) /\ pc = "failed"
        /\ pc = "failed" =>
             /\ caught # "none"
             /\ raised = caught
             /\ events[Len(events)] = Ev("raise", caught, 0)

\* the handler raised after a removal of the catch block failed
C5_Witness ==
    /\ pc = "failed"
    /\ Failed("catchRmClone") \cup Failed("catchRmDist") # {}
    /\ raised = "UploadFailed"

\* the calls a stage makes that can fail, and what must not follow a failure
StageOps == {"clone", "checkout", "locate", "parseManifest", "install", "build",
             "cp", "put", "invalidate", "rmClone"}
LaterStageOps == {"clone", "checkout", "install", "build", "put", "invalidate",
                  "progress"}
OnceOps == {"clone", "checkout", "install", "build", "invalidate"}
AtMostOnce ==
    /\ \A op \in OnceOps : Cardinality(At(op)) <= 1
    /\ \A i, j \in At("put") : events[i].n = events[j].n => i = j

\* C6 as stated: once a stage has failed, no subprocess, PUT, invalidation
\* request or progress update follows in that run, and git clone, git
\* checkout, npm install, npm run build, the PUT of each file and the
\* invalidation are each invoked at most once.
C6_FailStopEveryStage ==
    /\ \A i \in DOMAIN events :
         (events[i].op \in StageOps /\ events[i].s = "fail") =>
             \A j \in DOMAIN events : j > i => events[j].op \notin LaterStageOps
    /\ AtMostOnce

\* C6 amended: the same for every stage but the invalidation, whose failure
\* is not fatal.
C6_FailStopFatalStages ==
    /\ \A i \in DOMAIN events :
         (events[i].op \in StageOps \ {"invalidate"} /\ events[i].s = "fail") =>
             \A j \in DOMAIN events : j > i => events[j].op \notin LaterStageOps
    /\ AtMostOnce

\* npm install failed and the handler raised
C6_Witness ==
    /\ pc = "failed"
    /\ Failed("install") # {}
    /\ raised = "DependencyInstallFailed"

Patches == At("patchVite") \cup At("patchCRA")

C8_StagesGated ==
    /\ \A p \in At("put") :
         /\ \E c \in Succeeded("cp") : c < p
         /\ repo.build => \E b \in Succeeded("build") : b < p
         /\ Failed("build") = {}
    /\ \A v \in At("invalidate") :
         /\ Failed("put") = {}
         /\ Cardinality({p \in Succeeded("put") : p < v}) = distFiles
         /\ objects = KeysOfFiles(1..distFiles)
    /\ \A r \in At("rmClone") :
         job.distributionId # "" => \E v \in At("invalidate") : v < r
    /\ \A i \in DOMAIN events :
         (events[i] = Progress(100) \/ events[i].op = "return") =>
             \E r \in Succeeded("rmClone") : r < i

\* a built project with several files was uploaded, invalidated and returned
C8_Witness ==
    /\ pc = "done"
    /\ repo.build
    /\ job.distributionId # ""
    /\ distFiles >= 2
    /\ At("invalidate") # {}

\* C9 as stated: whenever the handler raises, no object written by the run is
\* under {deploymentId}/.
C9_NoObjectsOnFailure == pc = "failed" => objects = {}

PreUploadOps == {"clone", "checkout", "locate", "parseManifest", "install",
                 "build", "cp"}

\* C9 amended: whenever the handler raises because a stage before the upload
\* failed, no object written by the run is under {deploymentId}/.
C9_NoObjectsOnEarlyFailure ==
    (pc = "failed" /\ \E op \in PreUploadOps : Failed(op) # {}) => objects = {}

\* the copy into dist/{deploymentId} failed and the handler raised
C9_Witness ==
    /\ pc = "failed"
    /\ Failed("cp") # {}
    /\ objects = {}

\* C10: after a failed PUT no file later in the walker's order is PUT, no
\* invalidation is requested, the catch block's cleanup runs and the handler
\* raises the PUT's error.
C10_UploadFailureAborts ==
    \A f \in Failed("put") :
        /\ \A p \in At("put") : p # f => (p < f /\ events[p].n < events[f].n)
        /\ At("invalidate") = {}
        /\ pc # "done"
        /\ caught = "UploadFailed"
        /\ pc = "failed" =>
             /\ raised = "UploadFailed"
             /\ \E c \in At("catchRmClone") : c > f

\* the PUT of the second of three files failed and the handler raised
C10_Witness ==
    /\ pc = "failed"
    /\ totalFiles = 3
    /\ \E f \in Failed("put") : events[f].n = 2
    /\ objects = KeysOfFiles({1})

NoOutputDirFound ==
    \E i \in DOMAIN events :
        events[i] = Log("No build output folder found, using project root")

C12_InvalidationFailureNonFatal ==
    \A i \in Failed("invalidate") :
        /\ cloudFrontUrl = "null"
        /\ caught \in {"none", "RemoveFailed"}
        /\ caught = "RemoveFailed" => \E r \in Failed("rmClone") : r > i
        /\ pc \in {"cleanup", "finish", "done", "catch", "catchRmClone",
                   "catchRmDist", "rethrow", "failed"}
        /\ pc # "cleanup" => \E r \in At("rmClone") : r > i
        /\ pc \in {"finish", "done"} => \E r \in Succeeded("rmClone") : r > i
        /\ pc = "done" =>
             /\ \E q \in At("progress") : q > i /\ events[q].n = 100
             /\ result.success
             /\ result.cloudFrontUrl = "null"
             /\ result.s3Url = "https://aws-auto-deployer.s3.eu-north-1.amazonaws.com/"
                                  \o job.deploymentId \o "/index.html"

\* the invalidation failed and the handler returned its result
C12_Witness ==
    /\ Failed("invalidate") # {}
    /\ pc = "done"
    /\ result.success
    /\ result.cloudFrontUrl = "null"

\* C13 as stated: the returned CDN URL is non-null exactly when a distribution
\* identifier is configured and the invalidation was attempted.
C13_UrlIffAttempted ==
    pc = "done" =>
        (result.cloudFrontUrl # "null"
           <=> (job.distributionId # "" /\ At("invalidate") # {}))

\* C13 amended: the returned CDN URL is non-null exactly when a distribution
\* identifier is configured and the invalidation request succeeded; an
\* attempted invalidation that failed leaves it null.  When non-null it is
\* https://{cdn-domain}/{deploymentId}/index.html.
C13_UrlIffInvalidated ==
    pc = "done" =>
        /\ result.cloudFrontUrl # "null"
              <=> (job.distributionId # "" /\ Succeeded("invalidate") # {})
        /\ job.distributionId = "" => At("invalidate") = {}
        /\ job.distributionId # "" => At("invalidate") # {}
        /\ result.cloudFrontUrl # "null" =>
              result.cloudFrontUrl = "https://d2xycbl0v7dc9v.cloudfront.net/"
                                        \o job.deploymentId \o "/index.html"

\* a successful run whose result carries the CDN URL
C13_Witness ==
    /\ pc = "done"
    /\ Succeeded("invalidate") # {}
    /\ result.cloudFrontUrl # "null"

\* C14 as stated: when the handler has returned its result, neither the clone
\* directory nor dist/{deploymentId} exists.
C14_AllDirectoriesGone ==
    pc = "done" => (~cloneExists /\ ~distExists)

\* C14 amended: when the handler has returned its result, the clone directory
\* has been removed, while dist/{deploymentId} still exists: the success path
\* never removes it and returns it as localPath.
C14_CloneGoneDistKept ==
    pc = "done" =>
        /\ ~cloneExists
        /\ distExists
        /\ result.localPath = "dist/" \o job.deploymentId
        /\ At("catchRmDist") = {}

\* a successful run of a deployment with files
C14_Witness ==
    /\ pc = "done"
    /\ result.success
    /\ distFiles > 0
    /\ distExists

\* C17 as stated: every file is PUT once, under the key {deploymentId}/ followed
\* by its path relative to dist/{deploymentId} with forward slashes between the
\* segments; no other key is written; uploadedCount never exceeds totalFiles and
\* both equal the number of files in the returned result.
C17_KeyIsRelativePath ==
    /\ uploadedCount <= totalFiles
    /\ \A i, j \in At("put") : events[i].n = events[j].n => i = j
    /\ \A key \in objects : key[1] = job.deploymentId /\ key[2] = "/"
    /\ objects = { << job.deploymentId, "/" >> \o JoinPath(ArtifactFiles[events[i].n], "/", 1) :
                     i \in Succeeded("put") }
    /\ pc = "done" =>
         /\ result.uploadedCount = distFiles
         /\ result.totalFiles = distFiles
         /\ Cardinality(objects) = distFiles

Located == At("locate") # {}
Last(path) == path[Len(path)]
HiddenName(name) == name \in {".git", ".next", "node_modules"}
\* the directories named `name` no ancestor of which is hidden or node_modules
OpenDirsNamed(name) ==
    { p \in remote.tree.dirs :
        /\ Last(p) = name
        /\ \A k \in 1..(Len(p) - 1) : ~HiddenName(p[k]) }
\* the directory the resolution returned
ResolvedPath ==
    IF buildRoot = "direct" THEN << job.buildPath >>
    ELSE IF buildRoot = "search" /\ search.found # {}
         THEN CHOOSE p \in search.found : TRUE
         ELSE << >>
ResolvedByName ==
    /\ Succeeded("locate") # {}
    /\ caught # "BuildRootNotFound"
    /\ buildRoot \in {"direct", "search"}
    /\ ResolvedPath # << >>
    /\ Last(ResolvedPath) = job.buildPath
    /\ IsDirectory(remote.tree, ResolvedPath)

\* C15 as stated: a non-empty requested name that is the name of a directory
\* at depth 1, 2 or 3, reached through no hidden or node_modules directory, is
\* always resolved, to a directory of that name.
C15_FoundUpToDepthThree ==
    (Located /\ job.buildPath # ""
       /\ \E p \in OpenDirsNamed(job.buildPath) : Len(p) \in 1..3)
      => ResolvedByName

\* C15 amended: such a name is always resolved, to a directory of that name,
\* when it lies at depth 1 (direct path) or when the name itself is neither
\* dot-prefixed nor node_modules; a dot-prefixed or node_modules name that is
\* not a directory at depth 1 is never found by the search.
C15_FoundUnlessNameSkipped ==
    (Located /\ job.buildPath # "") =>
        /\ (\E p \in OpenDirsNamed(job.buildPath) :
               \/ Len(p) = 1
               \/ Len(p) \in 2..3 /\ ~HiddenName(job.buildPath))
             => ResolvedByName
        /\ (HiddenName(job.buildPath) /\ << job.buildPath >> \notin remote.tree.dirs)
             => (Failed("locate") # {} /\ caught = "BuildRootNotFound")

\* the requested name was found three levels deep by the search
C15_Witness ==
    /\ Located
    /\ buildRoot = "search"
    /\ Len(ResolvedPath) = 3
    /\ Last(ResolvedPath) = job.buildPath
    /\ ResolvedPath \in remote.tree.dirs

\* the names of the directories (and links to directories) of the clone root
TopLevelDirectories ==
    LET isTop(name) == << name >> \in remote.tree.dirs \cup remote.tree.links
    IN  SelectSeq(NameOrder, isTop)

\* C16: every call of searchForFolder returns; for a non-empty requested name
\* that no directory of the tree bears (links and cycles included) it returns
\* no match, the handler logs the top-level directory names actually present
\* and then fails with the not-found error, and no install, build or upload
\* is performed.
C16_AbsentNameFails ==
    /\ search # NoSearch => search.returned
    /\ (Located /\ job.buildPath # ""
         /\ \A p \in remote.tree.dirs : Last(p) # job.buildPath)
        => /\ search.returned
           /\ search.found = {}
           /\ caught = "BuildRootNotFound"
           /\ pc \in {"catch", "catchRmClone", "catchRmDist", "rethrow", "failed"}
           /\ pc = "failed" => raised = "BuildRootNotFound"
           /\ \E i \in DOMAIN events :
                 /\ events[i] = Log("Available folders: "
                                      \o JoinNames(TopLevelDirectories, 1))
                 /\ \A j \in At("logMessage") : j > i
           /\ At("install") = {} /\ At("build") = {} /\ At("put") = {}
           /\ At("cp") = {} /\ objects = {}

\* a tree with a link cycle and several directories in which the name is absent
C16_Witness ==
    /\ pc = "failed"
    /\ raised = "BuildRootNotFound"
    /\ remote.tree.links # {}
    /\ Cardinality(remote.tree.dirs) >= 2
    /\ Len(search.listed) >= 6
    /\ \A p \in remote.tree.dirs : Last(p) # job.buildPath

\* the progress updates of the upload loop: those between the start of the
\* upload and the end of the loop
UploadStarted == {i \in DOMAIN events : events[i] = Log("Uploading to S3...")}
UploadEnded == {i \in DOMAIN events : events[i] = Log("Upload complete")}
LoopUpdates ==
    LET started == UploadStarted
        ended == UploadEnded
    IN  { q \in At("progress") :
            /\ \E u \in started : u < q
            /\ \A e \in ended : q < e }

\* C18: in the upload loop exactly one progress update follows each successful
\* PUT and there is no other; the update after the k-th of N files is
\* 75 + floor(20 * k / N); the values never decrease and stay within 75..95;
\* when the loop has uploaded all N >= 1 files there were N updates and the
\* last one is 95, the top of the band.
C18_OneUpdatePerPut ==
    LET updates == LoopUpdates
        puts == Succeeded("put")
    IN  /\ \A i \in puts :
             /\ i + 1 \in updates
             /\ events[i + 1].n = 75 + ((20 * events[i].n) \div totalFiles)
        /\ \A q \in updates :
             /\ q - 1 \in puts
             /\ events[q].n >= 75 /\ events[q].n <= 95
        /\ \A q, r \in updates : q < r => events[q].n <= events[r].n
        /\ Cardinality(updates) = Cardinality(puts)
        /\ Cardinality(updates) = uploadedCount
        /\ (UploadEnded # {} /\ totalFiles >= 1) =>
             /\ Cardinality(updates) = totalFiles
             /\ \E q \in updates :
                  /\ \A r \in updates : r <= q
                  /\ events[q].n = 95

\* three files were uploaded with the updates 81, 88 and 95
C18_Witness ==
    /\ pc = "done"
    /\ totalFiles = 3
    /\ { events[q].n : q \in LoopUpdates } = {81, 88, 95}

\* the update that followed the PUT of the last file
LastFileUpdates ==
    { i + 1 : i \in { j \in Succeeded("put") : events[j].n = totalFiles } }

\* C19 as stated: with a distribution identifier the update after the last
\* file is 95, without one it is 100.
C19_BandDependsOnDistribution ==
    \A q \in LastFileUpdates :
        events[q].n = IF job.distributionId # "" THEN 95 ELSE 100

\* C19 amended: the upload band is 75..95 whether or not a distribution
\* identifier is configured: the update after the last file is 95, no upload
\* update exceeds 95, and 100 is reported only after the clone was removed.
C19_BandIsFixed ==
    LET removed == Succeeded("rmClone")
        reported == At("progress")
    IN  /\ \A q \in LastFileUpdates : events[q].n = 95
        /\ \A q \in LoopUpdates : events[q].n <= 95
        /\ \A q \in reported :
             events[q].n = 100 => \E r \in removed : r < q
        /\ pc = "done" => \E q \in reported : events[q].n = 100

\* a job without distribution identifier that uploaded its files and returned
C19_Witness ==
    /\ pc = "done"
    /\ job.distributionId = ""
    /\ totalFiles >= 2
    /\ \E q \in LastFileUpdates : events[q].n = 95

Manifest == remote.manifest
InstallDecided == \E q \in At("progress") : events[q].n = 40

\* C20: without a manifest neither npm install nor npm run build is invoked
\* and the build root is what is copied; with a manifest npm install is invoked
\* exactly when it declares dependencies, npm run build exactly when it
\* declares a build script, and without a build script the build root is what
\* is copied, after the install when there are dependencies.
C20_ClassificationDecidesStages ==
    /\ At("install") # {} => (Manifest.pkg = "valid" /\ Manifest.deps)
    /\ At("build") # {} => (Manifest.pkg = "valid" /\ Manifest.build)
    /\ InstallDecided => (At("install") # {} <=> Manifest.deps)
    /\ \A c \in At("cp") :
         /\ Manifest.pkg \in {"none", "valid"}
         /\ Manifest.pkg = "none" =>
              /\ At("install") = {} /\ At("build") = {}
              /\ artifactSource = "buildRoot"
         /\ Manifest.pkg = "valid" =>
              /\ (\E i \in Succeeded("install") : i < c) <=> Manifest.deps
              /\ (\E b \in Succeeded("build") : b < c) <=> Manifest.build
              /\ ~Manifest.build => artifactSource = "buildRoot"

\* a manifest with dependencies and no build script: installed, not built,
\* build root uploaded
C20_Witness ==
    /\ pc = "done"
    /\ Manifest.pkg = "valid" /\ Manifest.deps /\ ~Manifest.build
    /\ Succeeded("install") # {}
    /\ At("build") = {}
    /\ artifactSource = "buildRoot"
    /\ objects # {}

\* C21: a manifest that cannot be parsed makes the handler throw at the parse,
\* which is tried once: no dotenv file was written, nothing was installed,
\* built, copied or uploaded, the catch block runs its removals, and the
\* handler raises the parse error.
C21_MalformedManifestAborts ==
    /\ (Manifest.pkg = "malformed" /\ Succeeded("locate") # {} /\ pc # "detect")
         => Failed("parseManifest") # {}
    /\ \A f \in Failed("parseManifest") :
         /\ Manifest.pkg = "malformed"
         /\ At("parseManifest") = {f}
         /\ caught = "ManifestParseError"
         /\ pc \in {"catch", "catchRmClone", "catchRmDist", "rethrow", "failed"}
         /\ At("writeEnv") = {} /\ At("install") = {} /\ At("build") = {}
         /\ At("patchVite") = {} /\ At("patchCRA") = {}
         /\ At("cp") = {} /\ At("put") = {} /\ At("invalidate") = {}
         /\ objects = {} /\ ~distExists
         /\ pc \in {"catchRmDist", "rethrow", "failed"} =>
              \E c \in At("catchRmClone") : c > f
         /\ pc = "failed" =>
              /\ raised = "ManifestParseError"
              /\ \A j \in DOMAIN events : j > f => events[j].op \in
                    {"log", "logMessage", "catchRmClone", "catchRmDist", "raise"}

\* the parse failed, the clone was removed and the handler raised
C21_Witness ==
    /\ pc = "failed"
    /\ raised = "ManifestParseError"
    /\ Failed("parseManifest") # {}
    /\ Succeeded("catchRmClone") # {}
    /\ ~cloneExists

\* the config file Vite loads: vite.config.js if it exists, else vite.config.ts
EffectiveViteConfig == IF viteConfig.js.exists THEN viteConfig.js ELSE viteConfig.ts

\* the text gives the config object an option base whose value is the string './'
SetsRelativeBase(text) ==
    \E i \in 1..Len(text) :
        /\ text[i] = "base"
        /\ i = 1 \/ text[i - 1] \in WhiteSpace \cup {"{", ","}
        /\ i + 1 <= Len(text) /\ text[i + 1] = ":"
        /\ LET v == SkipWhile(text, i + 2, WhiteSpace)
               after == SkipWhile(text, v + 3, WhiteSpace)
           IN  /\ v + 2 <= Len(text)
               /\ text[v] \in Quotes /\ text[v + 1] = "./" /\ text[v + 2] \in Quotes
               /\ after > Len(text) \/ text[after] \in {",", "}"}

\* C22 as stated: once fixViteConfig has run, the config file Vite loads exists
\* and sets base to './', whatever the config file of the repository was.
C22_BaseAlwaysRelative ==
    Succeeded("patchVite") # {} =>
        /\ EffectiveViteConfig.exists
        /\ SetsRelativeBase(EffectiveViteConfig.content)

\* the environment has been composed: one of the two closing log lines is there
Composed ==
    \E i \in DOMAIN events :
        /\ events[i].op = "log"
        /\ events[i].s \in {"environment variable(s) configured",
                            "No environment variables configured"}

\* the map before the block is read
MapBeforeBlock == AddBackendUrl(NoEnv, job.backendUrl).map

\* the reference parse of one line, as stated: a comment is a line starting with '#'
ReferenceLine(map, line) ==
    LET eq == SkipUntil(line, 1, {"="})
    IN  IF Trim(line) = << >> \/ (line # << >> /\ line[1] = "#") THEN map
        ELSE IF eq <= Len(line)
        THEN Put(map, Trim(SubSeq(line, 1, eq - 1)), Trim(SubSeq(line, eq + 1, Len(line))))
        ELSE map

\* the reference parse with a comment decided on the trimmed line and a line with
\* an empty key contributing nothing
ReferenceLineKeyed(map, line) ==
    LET text == Trim(line)
        eq == SkipUntil(text, 1, {"="})
    IN  IF text = << >> \/ text[1] = "#" THEN map
        ELSE IF eq <= Len(text) /\ Trim(SubSeq(text, 1, eq - 1)) # << >>
        THEN Put(map, Trim(SubSeq(text, 1, eq - 1)), Trim(SubSeq(text, eq + 1, Len(text))))
        ELSE map

\* the lines read in order by the reference as stated, a later line
\* overwriting an earlier one
Reference(map, lines) ==
    LET after[i \in 0..Len(lines)] ==
            IF i = 0 THEN map ELSE ReferenceLine(after[i - 1], lines[i])
    IN  after[Len(lines)]

\* the same with the keyed reading of a line
ReferenceKeyed(map, lines) ==
    LET after[i \in 0..Len(lines)] ==
            IF i = 0 THEN map ELSE ReferenceLineKeyed(after[i - 1], lines[i])
    IN  after[Len(lines)]

\* C23 (as stated): the map of every block equals the reference parse in which
\* blank lines and lines starting with '#' are skipped, a line with '=' gives
\* trimmed key -> trimmed value at the first '=', a line without '=' gives no
\* key and the last duplicate wins; parsing the block again changes nothing
C23_MapIsReference ==
    Composed =>
        /\ env.map = Reference(MapBeforeBlock, Split(job.envVariables, "\n"))
        /\ AddBlock(env, job.envVariables).map = env.map

\* C23 (amended): the same with comments recognised after trimming the line and
\* with lines whose trimmed key is empty contributing no key
C23_MapIsKeyedReference ==
    Composed =>
        /\ env.map = ReferenceKeyed(MapBeforeBlock, Split(job.envVariables, "\n"))
        /\ AddBlock(env, job.envVariables).map = env.map

\* a block with a duplicate key whose last value contains '=' has been parsed
C23_Witness ==
    /\ Composed
    /\ Succeeded("build") # {}
    /\ env.added = << << "A" >>, << "A" >> >>
    /\ env.map[<< "A" >>] = << "B", "=", "C" >>

\* a line that is neither blank nor a comment and has no '=' or an empty key
InvalidLine(line) ==
    LET text == Trim(line)
        eq == SkipUntil(text, 1, {"="})
    IN  /\ text # << >>
        /\ text[1] # "#"
        /\ eq > Len(text) \/ Trim(SubSeq(text, 1, eq - 1)) = << >>

\* a line that gives a variable
ValidLine(line) ==
    LET text == Trim(line)
    IN  text # << >> /\ text[1] # "#" /\ ~InvalidLine(line)

BlockLines == Split(job.envVariables, "\n")

\* C24: every non-blank, non-comment line without '=' or with an empty key is
\* reported as skipped by a log line naming it, adds nothing to the dotenv
\* content or the environment map, and does not abort the job
C24_InvalidLinesReported ==
    Composed =>
        LET lines == BlockLines
            invalid == { i \in DOMAIN lines : InvalidLine(lines[i]) }
            valid == { i \in DOMAIN lines : ValidLine(lines[i]) }
        IN  /\ \A i \in invalid : \E j \in DOMAIN env.skipped : env.skipped[j] = Trim(lines[i])
            /\ Len(env.skipped) = Cardinality(invalid)
            /\ Len(env.added) = Cardinality(valid)
            /\ Len(env.content) = Cardinality(valid) + (IF job.backendUrl # "" THEN 3 ELSE 0)
            /\ DOMAIN env.map \subseteq
                   DOMAIN MapBeforeBlock
                       \cup { Trim(SubSeq(Trim(lines[i]), 1,
                                          SkipUntil(Trim(lines[i]), 1, {"="}) - 1)) : i \in valid }
            /\ Failed("writeEnv") = {}

BackendKeySet == { BackendKeys[i] : i \in DOMAIN BackendKeys }

\* the keys the valid lines of the block assign
BlockKeys ==
    { Trim(SubSeq(Trim(BlockLines[i]), 1, SkipUntil(Trim(BlockLines[i]), 1, {"="}) - 1)) :
        i \in { j \in DOMAIN BlockLines : ValidLine(BlockLines[j]) } }

\* C25 (as stated): with a backend URL the environment map of the install and
\* build subprocesses holds the three framework keys, all equal to the backend
\* URL, whatever the block contains, and the three keys add 3 to the count
C25_BackendKeysPointAtUrl ==
    (Composed /\ job.backendUrl # "") =>
        /\ \A k \in BackendKeySet :
               k \in DOMAIN env.map /\ env.map[k] = << job.backendUrl >>
        /\ env.count = 3 + Len(env.added)

\* C25 (amended): the three keys are in the map and counted; a key equals the
\* backend URL unless a valid line of the block assigns the same key, and then
\* it has the value the reference parse of the block gives it
C25_BackendKeysUnlessReassigned ==
    (Composed /\ job.backendUrl # "") =>
        /\ \A k \in BackendKeySet :
               /\ k \in DOMAIN env.map
               /\ k \notin BlockKeys => env.map[k] = << job.backendUrl >>
               /\ k \in BlockKeys =>
                      env.map[k] = ReferenceKeyed(MapBeforeBlock, BlockLines)[k]
        /\ env.count = 3 + Len(env.added)
        /\ Len(env.content) = env.count
        /\ \A i \in 1..3 : env.content[i] = EnvLine(BackendKeys[i], << job.backendUrl >>)

\* the build has run with a backend URL and a block of two variables
C25_Witness ==
    /\ Composed
    /\ job.backendUrl # ""
    /\ Succeeded("build") # {}
    /\ env.count = 5
    /\ env.map[<< "VITE_API_URL" >>] = << job.backendUrl >>

\* the extension of a file in lower case: the text from the last '.' of its
\* name on, none when the name has no '.' after its first character
Extension(file) ==
    LET name == file[Len(file)]
    IN  IF \E i \in 2..Len(name) : name[i] = "."
        THEN LET dot == CHOOSE i \in 2..Len(name) :
                            name[i] = "." /\ \A j \in (i + 1)..Len(name) : name[j] # "."
             IN  ToLowerCase(SubSeq(name, dot, Len(name)))
        ELSE << >>

TableExtensions ==
    { << ".", e >> : e \in {"html", "css", "js", "json", "png", "jpg", "jpeg", "gif", "svg",
                            "ico", "txt", "pdf", "woff", "woff2", "ttf", "eot"} }

\* C28: the content type sent with an object depends on the file's extension
\* only, compared without regard to case: '.html' gives text/html, '.js'
\* application/javascript, an extension of the table its entry, and any other
\* extension or none application/octet-stream
C28_TypeByExtension ==
    /\ Len(sent) = Cardinality(At("put"))
    /\ \A i \in DOMAIN sent :
         LET file == ArtifactFiles[i]
             ext == Extension(file)
         IN  /\ sent[i].Key = S3Key(job.deploymentId, RelativePath(file))
             /\ ext = << ".", "html" >> => sent[i].ContentType = "text/html"
             /\ ext = << ".", "js" >> => sent[i].ContentType = "application/javascript"
             /\ ext \in TableExtensions => sent[i].ContentType = ContentTypeMap[ext]
             /\ ext \notin TableExtensions =>
                    sent[i].ContentType = "application/octet-stream"
    /\ \A i, j \in DOMAIN sent :
         Extension(ArtifactFiles[i]) = Extension(ArtifactFiles[j]) =>
             sent[i].ContentType = sent[j].ContentType

\* files index.html, old/INDEX.HTML and index.htm have been sent: the first two
\* with the same type, the third as a binary
C28_Witness ==
    /\ Len(sent) = 3
    /\ Succeeded("put") # {}
    /\ sent[1].ContentType = "text/html"
    /\ sent[2].ContentType = "text/html"
    /\ sent[3].ContentType = "application/octet-stream"

\* the search has been called and has returned
Searched == search # NoSearch /\ search.returned

\* C29: the search is bounded to depth 3: it never returns a directory nested
\* more than 3 levels below the clone root and never lists the contents of a
\* directory nested more than 3 levels below the clone root
C29_BoundedToDepthThree ==
    Searched =>
        /\ \A p \in search.found : Len(p) <= MAX_DEPTH
        /\ \A i \in DOMAIN search.listed : Len(search.listed[i]) <= MAX_DEPTH

\* C30: during one call every directory of the clone tree is listed at most
\* once, also when links make it reachable through several paths or form a
\* cycle, and no entry that is dot-prefixed or named node_modules is entered
\* or returned
C30_ListedOnce ==
    Searched =>
        /\ \A i, j \in DOMAIN search.listed :
               Real(remote.tree, search.listed[i]) = Real(remote.tree, search.listed[j])
                   => i = j
        /\ \A i \in DOMAIN search.listed :
               \A k \in DOMAIN search.listed[i] : ~HiddenName(search.listed[i][k])
        /\ \A p \in search.found : \A k \in DOMAIN p : ~HiddenName(p[k])

\* the jobs whose handler has been started, and those whose handler has ended
Taken == { t.job : t \in { u \in touches : u.op = "take" } }
Ended == { t.job : t \in { u \in touches : u.op \in {"return", "raise"} } }

\* C26: never more than 2 handlers run at once, and a job is started only
\* when, of the jobs started before, all but at most one have returned or raised
C26_AtMostTwoHandlers ==
    /\ Cardinality(Running) <= 2
    /\ Running = Taken \ Ended
    /\ Ended \subseteq Taken
    /\ waiting \cap Taken = {}
    /\ \A id \in waiting : touches \cap { t \in touches : t.job = id } = {}

\* a third job waits while two handlers run, after another has ended
C26_Witness ==
    /\ Cardinality(Running) = 2
    /\ waiting # {}
    /\ \E id \in Running : slots[id] \in {"upload", "catch"}

\* StartsWith(text, prefix)
StartsWith(text, prefix) ==
    Len(prefix) <= Len(text) /\ SubSeq(text, 1, Len(prefix)) = prefix

\* an invalidation path covers an object path: by its prefix when it ends in
\* the wildcard, else as the same path
Covers(pattern, path) ==
    IF pattern[Len(pattern)] = "*"
    THEN StartsWith(path, SubSeq(pattern, 1, Len(pattern) - 1))
    ELSE pattern = path

LocalOps == {"create", "write", "remove"}

\* C27: jobs with distinct identifiers never create, write or remove the same
\* local directory (nor remove a directory that holds one of another job),
\* never write the same object key and never invalidate a path under the
\* prefix of another job, in any interleaving, failure cleanup included
C27_NoSharedResource ==
    \A t, u \in touches :
        t.job # u.job =>
            /\ (t.op \in LocalOps /\ u.op \in LocalOps) =>
                   /\ t.res # u.res
                   /\ t.op = "remove" => ~StartsWith(u.res, t.res \o << "/" >>)
            /\ (t.op = "put" /\ u.op = "put") => t.res # u.res
            /\ t.op = "invalidate" =>
                   \A k \in DOMAIN WorkerFiles :
                       ~Covers(t.res, << "/" >> \o KeyOf(u.job, WorkerFiles[k]))

\* two jobs, one identifier the beginning of the other, have both uploaded and
\* invalidated, and one of them has failed and cleaned up
C27_Witness ==
    /\ \E t \in touches : t.job = << "d1" >> /\ t.op = "invalidate"
    /\ \E t \in touches : t.job = << "d1", "x" >> /\ t.op = "put"
    /\ \E t \in touches : t.job = << "d1", "x" >> /\ t.op = "raise"
    /\ \E t \in touches : t.job = << "d1", "x" >> /\ t.op = "remove" /\ t.res = DistPath(t.job)
    /\ \E t \in touches : t.op = "create" /\ t.res = DistDir

DotEnvKeys ==
    { S3Key(job.deploymentId, RelativePath(DotEnvFiles[k])) : k \in DOMAIN DotEnvFiles }

\* C32: the dotenv files written by the environment stage are never uploaded:
\* no run, whatever the project type, writes an object under the key of .env,
\* .env.production or .env.local
C32_DotEnvNeverUploaded ==
    /\ objects \cap DotEnvKeys = {}
    /\ \A i \in DOMAIN sent : sent[i].Key \notin DotEnvKeys

\* the branches for which line 280 runs git checkout
CheckedOutBranch == job.branch \notin {"", "main", "master"}
\* the run has left the checkout stage after a successful clone
PastCheckout ==
    /\ Succeeded("clone") # {}
    /\ pc \notin {"start", "clone", "checkout"}
    /\ Failed("checkout") = {}

\* C33: git checkout runs exactly when the job's branch is non-empty and is
\* neither "main" nor "master"; it runs once, after the successful clone and
\* before anything of build-root resolution, and a failing checkout takes the
\* run into the catch block, whose cleanup removes the clone before the
\* error is raised.
C33_CheckoutStage ==
    /\ At("checkout") # {} => CheckedOutBranch
    /\ PastCheckout /\ CheckedOutBranch => Cardinality(Succeeded("checkout")) = 1
    /\ PastCheckout /\ ~CheckedOutBranch => At("checkout") = {}
    /\ Cardinality(At("checkout")) <= 1
    /\ \A i \in At("checkout") :
         /\ \E c \in Succeeded("clone") : c < i
         /\ \A j \in 1..(i - 1) : events[j].op \in {"progress", "log", "clone"}
    /\ \A f \in Failed("checkout") :
         /\ pc \in {"catch", "catchRmClone", "catchRmDist", "rethrow", "failed"}
         /\ caught = "BranchCheckoutFailed"
         /\ buildRoot = "none"
         /\ \A j \in DOMAIN events :
              j > f => events[j].op \in {"log", "logMessage", "catchRmClone",
                                         "catchRmDist", "raise"}
         /\ pc \in {"catchRmDist", "rethrow", "failed"} =>
              \E c \in At("catchRmClone") : c > f
         /\ pc = "failed" => raised # "none"

C33_Witness ==
    /\ job.branch = "dev"
    /\ Failed("checkout") # {}
    /\ pc = "failed"
    /\ Succeeded("catchRmClone") # {}
    /\ ~cloneExists

\* C34: after handleDeploy was called, the timer polls the job of the latest
\* call, no callback is about to request the status of an earlier job, and
\* the result or the polled error on display is that of the latest job.
C34_PollsSubmittedJob ==
    /\ pollInterval # NoJob => pollInterval = submitted
    /\ \A i \in InFlight : polls[i].stage = "logs" => polls[i].job = submitted
    /\ deploymentResult # NoJob => deploymentResult = submitted
    /\ error.from = "poll" => error.job = submitted

\* C35: a timer runs only while jobId is set and deploying is true, and the
\* page never displays a result and an error at the same time.
C35_PollingWhileDeploying ==
    /\ pollInterval # NoJob => jobId # NoJob /\ deploying
    /\ ~(deploymentResult # NoJob /\ error # NoError)

\* C35, its parts taken alone
C35_TimerOnlyWhileDeploying == pollInterval # NoJob => jobId # NoJob /\ deploying
C35_NeverResultAndError == ~(deploymentResult # NoJob /\ error # NoError)
C35_FirstDeploymentOneOutcome ==
    submitted <= 1 => ~(deploymentResult # NoJob /\ error # NoError)
C35_EventuallyNotDeploying ==
    (deploying /\ pollInterval # NoJob /\ pollInterval = submitted
               /\ jobs[pollInterval] \in {"completed", "failed"})
        ~> ~deploying
====
